---- MODULE Spec2Model ----
(***************************************************************************)
(* A model of BOT.py: the account map (user_data), the per-guild image and *)
(* video histories, the blackjack round map, and the interactive views     *)
(* (ImageView, VideoView, BlackjackView, QuizView, FavoritesView) with the *)
(* commands and button callbacks that mutate them.                         *)
(*                                                                         *)
(* Python dicts are functions whose DOMAIN is the set of keys present, so  *)
(* that d.get(k, default) and "k in d" mean what they mean in the source.  *)
(* Dates (the "%Y-%m-%d" strings) are day numbers, "" is NoDate; the clock *)
(* counts half hours (the fishing cooldown); a user id of None is 0.       *)
(*                                                                         *)
(* reply is the response the last step sent, with the inputs it answers:   *)
(* it tells the steps of the handlers apart in the properties below.       *)
(*                                                                         *)
(* The specifications: SpecGames (daily, slots, blackjack), SpecSlots      *)
(* (the slot machine over every triple), SpecFav (favourites, days, the    *)
(* admin reset), SpecSessions (the image and video views and the search    *)
(* form), SpecUnbound (image views built without a user), SpecTheft       *)
(* (steal and the clock), SpecFish (fish and the clock), SpecDaily (daily  *)
(* claims over eleven days), SpecHands (hand_value over every hand of up   *)
(* to five cards), SpecRounds (blackjack rounds over four shuffles),       *)
(* SpecQuiz (quiz rounds), SpecPersist (flushes and loads with the         *)
(* database server going away and coming back), SpecBackfill              *)
(* (get_user_data over old records), SpecFetch (the image handlers over    *)
(* every answer of the API), SpecViews (the same from accounts that hold  *)
(* a balance), SpecLoop (handlers around a call of the content API that    *)
(* keeps the thread of the event loop), SpecAdmin (give and reset),        *)
(* SpecAwait (blackjack rounds whose settling handlers stop at their       *)
(* await), SpecWagers (rounds of two wagers), SpecShared (two image        *)
(* sessions in one guild) and SpecFavList (the favourites sessions).       *)
(*                                                                         *)
(* suspended holds the handlers that have started and not ended: those     *)
(* inside requests.get, which keeps the thread, and those at the await of  *)
(* the edit of a settled blackjack message. In the other specifications a  *)
(* handler runs from its first line to its last as one step.               *)
(*                                                                         *)
(* The durable store is the table users (db), the file DATA_FILE           *)
(* (json_file) and whether a connection can be made (db_up); every path of *)
(* a handler either calls save_user_data or leaves the store alone, as the *)
(* source does.                                                            *)
(***************************************************************************)
EXTENDS Integers, Sequences, FiniteSets, TLC

VARIABLES
    user_data,        \* BOT.py:31   uid -> account dict
    history,          \* BOT.py:29   guild id -> sequence of posts
    video_history,    \* BOT.py:30   guild id -> sequence of posts
    blackjack_games,  \* BOT.py:759  user id -> round dict
    imageViews,       \* the ImageView objects attached to messages
    videoViews,       \* the VideoView objects attached to messages
    bjViews,          \* the BlackjackView objects attached to messages
    modals,           \* the open TagSearchModal / TagSelectView objects
    now,              \* the wall clock, in half hours
    reply,            \* the response the last step sent
    quizViews,        \* the QuizView objects attached to messages
    db,               \* the rows of the PostgreSQL table users, by user_id
    json_file,        \* the content of DATA_FILE, NoFile while it does not exist
    db_up,            \* get_db_connection() returns a connection
    suspended,        \* the handlers stopped inside a call, oldest first
    favViews          \* the FavoritesView objects attached to private messages

vars == <<user_data, history, video_history, blackjack_games, imageViews,
          videoViews, bjViews, modals, now, reply, quizViews, db, json_file, db_up,
          suspended, favViews>>

\* The durable state: what a restart of the process finds.
persistence == <<db, json_file, db_up>>

\* ------------------------------------------------------------------ bounds
NumPosts == 2
MaxViews == 1
MaxHistory == 3
MaxViewCount == 3
MaxBJViews == 2
NumShuffles == 2
MaxDays == 1
MaxTicks == 2
MaxWaifame == 70
MaxSlotsWaifame == 250
MaxFishCaught == 2
MaxFishWaifame == 500
MaxStreakDays == 11
MaxHandSize == 5
NumRoundShuffles == 4
MaxRoundWaifame == 90
MaxModals == 1
MaxFavsUsed == 1

\* The user and guild ids that act.
Users == {1, 2}
Guilds == {1}

\* ------------------------------------------------------- program constants
None == 0

\* The admin's id, as one of Users.
ADMIN_ID == 1

\* The date "" of an account that never used a favourite or claimed a daily.
NoDate == -1

\* Half hours in a day.
TicksPerDay == 48

\* "daily_favs < 5"
DailyFavLimit == 5

\* A minimum wager of half the amount.
MinMise_five == 10 \div 2

MinMise == 10

\* The cooldowns of 30 * 60 and 60 * 60 seconds, in half hours.
\* A cooldown of twice the time.
FishCooldown_double == 1 + 1

FishCooldown == 1

\* A cooldown of half the time.
StealCooldown_half == 2 \div 2

StealCooldown == 2

\* "victim_waifame < 50", and the least amount stolen or fined.
StealMinVictim == 50

\* No least amount.
StealMinimum_zero == 10 - 10

StealMinimum == 10

\* The dealer draws below 17.
\* A dealer who draws on 17.
DealerStands_eighteen == 17 + 1

DealerStands == 17

\* The inputs the commands are tried with.
Wagers == {MinMise - 5, MinMise}
DailyDraws == {50}
StealPercents == {10, 20, 30}

\* ------------------------------------------------------------ dict helpers
Get(d, k, default) == IF k \in DOMAIN d THEN d[k] ELSE default

Put(d, k, v) == (k :> v) @@ d

Has(d, k) == k \in DOMAIN d

\* A del that is left out.
Del_keep(d, k) == d

Del(d, k) == [x \in (DOMAIN d) \ {k} |-> d[x]]

EmptyDict == [x \in {} |-> 0]

\* ---------------------------------------------------------------- accounts
NewAccount ==
    [favorites |-> <<>>, view_count |-> 0, waifame |-> 0,
     daily_favs |-> 0, last_fav_date |-> NoDate]

\* A backfill that sets the three fields whether or not they are there.
Backfill_always(data) ==
    Put(Put(Put(data, "waifame", 0), "daily_favs", 0), "last_fav_date", NoDate)

\* get_user_data: the account map after the call (create, then backfill).
Backfill(data) ==
    LET d1 == IF Has(data, "waifame") THEN data ELSE Put(data, "waifame", 0)
        d2 == IF Has(d1, "daily_favs") THEN d1 ELSE Put(d1, "daily_favs", 0)
    IN  IF Has(d2, "last_fav_date") THEN d2 ELSE Put(d2, "last_fav_date", NoDate)

get_user_data(ud, uid) ==
    LET ud1 == IF Has(ud, uid) THEN ud ELSE Put(ud, uid, NewAccount)
    IN  [ud1 EXCEPT ![uid] = Backfill(@)]

\* The balance a reader of the account sees: data.get("waifame", 0).
Balance(ud, uid) == IF Has(ud, uid) THEN Get(ud[uid], "waifame", 0) ELSE 0

\* get_today_date: the calendar date of the clock.
get_today_date(t) == t \div TicksPerDay

\* ------------------------------------------------------------- persistence
\* DATA_FILE before it was ever written, and after json.dump(user_data).
NoFile == [exists |-> FALSE, data |-> EmptyDict]

Dumped(ud) == [exists |-> TRUE, data |-> ud]

\* The columns the INSERT of save_user_data writes for one account, which are
\* the keys load_user_data rebuilds it with.
Row(data) ==
    [view_count |-> Get(data, "view_count", 0), waifame |-> Get(data, "waifame", 0),
     daily_favs |-> Get(data, "daily_favs", 0),
     last_fav_date |-> Get(data, "last_fav_date", NoDate),
     favorites |-> Get(data, "favorites", <<>>)]

\* INSERT ... ON CONFLICT (user_id) DO UPDATE, for every account in memory.
Upsert(table, ud) ==
    [uid \in DOMAIN table \cup DOMAIN ud |->
        IF uid \in DOMAIN ud THEN Row(ud[uid]) ELSE table[uid]]

\* A flush that writes nothing.
save_user_data_nothing(ud) == UNCHANGED <<db, json_file, db_up>>

\* save_user_data(), called with the account map ud in memory: the table when
\* get_db_connection() connects, DATA_FILE when it does not.
save_user_data(ud) ==
    /\ IF db_up
       THEN db' = Upsert(db, ud) /\ UNCHANGED json_file
       ELSE json_file' = Dumped(ud) /\ UNCHANGED db
    /\ UNCHANGED db_up

\* A handler path that returns without save_user_data().
NoSave == UNCHANGED <<db, json_file, db_up>>

\* load_user_data_json(): the account map after the call.
load_user_data_json(ud) == IF json_file.exists THEN json_file.data ELSE ud

\* load_user_data(): the account map after the call. The rows of the table
\* replace the accounts they name; the other accounts stay.
load_user_data(ud) ==
    IF db_up
    THEN [uid \in DOMAIN ud \cup DOMAIN db |->
             IF uid \in DOMAIN db THEN db[uid] ELSE ud[uid]]
    ELSE load_user_data_json(ud)

\* A response: what was sent, to whose action, with one number of its text.
Reply(kind, user, val) == [kind |-> kind, user |-> user, val |-> val]

\* A step that answers nobody: the clock, a view timing out.
NoReply == Reply("none", None, 0)

\* The response to a press of the heart button of view v showing post pid.
FavReply(kind, user, v, pid) == [kind |-> kind, user |-> user, val |-> v, post |-> pid]

\* The response to a wager command: the wager is part of it.
WagerReply(kind, user, mise, val) ==
    [kind |-> kind, user |-> user, val |-> val, mise |-> mise]

\* The response to a daily claim: the reward, the streak bonus and the streak
\* shown in the embed.
DailyReply(user, base_reward, streak_bonus, streak) ==
    [kind |-> "daily", user |-> user, val |-> base_reward + streak_bonus,
     base |-> base_reward, bonus |-> streak_bonus, streak |-> streak]

\* The response to a catch: the entry of the pool drawn and its value.
FishReply(user, caught, value) ==
    [kind |-> "fish", user |-> user, val |-> value, caught |-> caught]

\* The response to a theft attempt on target: the wait, or the amount stolen
\* or fined, and the share drawn.
StealReply(kind, user, target, val, percent) ==
    [kind |-> kind, user |-> user, val |-> val, target |-> target,
     percent |-> percent]

\* The response to a press of a button of blackjack view v: a refusal, or the
\* embed with the player's total.
RoundReply(kind, user, v, player_val) ==
    [kind |-> kind, user |-> user, val |-> player_val, view |-> v]

\* The response to a stand that settles: the embed with both totals and the
\* dealer's hand.
StandReply(kind, user, v, player_val, dealer) ==
    [kind |-> kind, user |-> user, val |-> player_val, view |-> v,
     dealer |-> dealer]

\* ------------------------------------------------------------------- slots
SlotSymbols == <<"cherry", "lemon", "orange", "diamond", "seven">>

SlotWeights == <<30, 25, 20, 15, 10>>

SlotResults == [1..3 -> {SlotSymbols[i] : i \in 1..5}]

\* One spin of each kind of outcome, for the runs where the spin is not the
\* subject.
SlotDraws ==
    {<<"seven", "seven", "seven">>, <<"cherry", "cherry", "lemon">>,
     <<"cherry", "lemon", "orange">>}

\* A payout table without the diamond row.
SlotMultiplier_nodiamond(result) ==
    IF result[1] = result[2] /\ result[2] = result[3]
    THEN IF result[1] = "seven" THEN 20 ELSE 10
    ELSE IF result[1] = result[2] \/ result[2] = result[3] \/ result[1] = result[3]
         THEN 2
         ELSE 0

SlotMultiplier(result) ==
    IF result[1] = result[2] /\ result[2] = result[3]
    THEN IF result[1] = "seven" THEN 20
         ELSE IF result[1] = "diamond" THEN 15
         ELSE 10
    ELSE IF result[1] = result[2] \/ result[2] = result[3] \/ result[1] = result[3]
         THEN 2
         ELSE 0

slots(u, mise, result) ==
    /\ IF mise < MinMise
       THEN /\ reply' = WagerReply("slots_minimum", u, mise, 0)
            /\ NoSave
            /\ UNCHANGED user_data
       ELSE LET ud == get_user_data(user_data, u)
                winnings == mise * SlotMultiplier(result)
            IN  IF Get(ud[u], "waifame", 0) < mise
                THEN /\ user_data' = ud
                     /\ reply' = WagerReply("slots_insufficient", u, mise, 0)
                     /\ NoSave
                ELSE /\ user_data' = [ud EXCEPT ![u] =
                            Put(@, "waifame", Get(@, "waifame", 0) - mise + winnings)]
                     /\ reply' = [kind |-> "slots", user |-> u, val |-> SlotMultiplier(result),
                                   mise |-> mise, result |-> result]
                     /\ save_user_data(user_data')
    /\ UNCHANGED <<history, video_history, blackjack_games, imageViews,
                   videoViews, bjViews, modals, now, quizViews, suspended, favViews>>

\* ------------------------------------------------------------------- daily
\* The larger of the two where the smaller is meant.
Min_larger(a, b) == IF a < b THEN b ELSE a

Min(a, b) == IF a < b THEN a ELSE b

\* The smaller of the two where the larger is meant.
Max_smaller(a, b) == IF a > b THEN b ELSE a

Max(a, b) == IF a > b THEN a ELSE b

\* A claim that is never taken for a second one.
claimed_today_never(last_daily, today) == FALSE

\* "if last_daily == today"
claimed_today(last_daily, today) == last_daily = today

daily(u, base_reward) ==
    LET ud == get_user_data(user_data, u)
        data == ud[u]
        today == get_today_date(now)
        last_daily == Get(data, "last_daily", NoDate)
        yesterday == get_today_date(now - TicksPerDay)
        streak == IF last_daily = yesterday
                  THEN Get(data, "daily_streak", 0) + 1
                  ELSE 1
        streak_bonus == Min(streak * 10, 100)
        total_reward == base_reward + streak_bonus
    IN  /\ IF claimed_today(last_daily, today)
           THEN /\ user_data' = ud
                /\ reply' = Reply("daily_already", u, 0)
                /\ NoSave
           ELSE /\ user_data' = [ud EXCEPT ![u] =
                       Put(Put(Put(@, "waifame", Get(@, "waifame", 0) + total_reward),
                               "last_daily", today),
                           "daily_streak", streak)]
                /\ reply' = DailyReply(u, base_reward, streak_bonus, streak)
                /\ save_user_data(user_data')
        /\ UNCHANGED <<history, video_history, blackjack_games, imageViews,
                       videoViews, bjViews, modals, now, quizViews, suspended, favViews>>

\* -------------------------------------------------------------------- fish
fish_pool ==
    << [min_value |-> 5,   max_value |-> 15,  weight |-> 40],
       [min_value |-> 8,   max_value |-> 18,  weight |-> 35],
       [min_value |-> 20,  max_value |-> 40,  weight |-> 15],
       [min_value |-> 25,  max_value |-> 45,  weight |-> 12],
       [min_value |-> 50,  max_value |-> 80,  weight |-> 5],
       [min_value |-> 55,  max_value |-> 85,  weight |-> 4],
       [min_value |-> 100, max_value |-> 150, weight |-> 2],
       [min_value |-> 150, max_value |-> 250, weight |-> 1],
       [min_value |-> 1,   max_value |-> 3,   weight |-> 10] >>

\* The catches tried.
FishDraws ==
    {<<1, fish_pool[1].min_value>>, <<1, fish_pool[1].max_value>>,
     <<8, fish_pool[8].max_value>>, <<9, fish_pool[9].min_value>>}

fish(u, caught, value) ==
    LET ud == get_user_data(user_data, u)
        data == ud[u]
        time_left == (Get(data, "last_fish", 0) + FishCooldown) - now
    IN  /\ IF time_left > 0
           THEN /\ user_data' = ud
                /\ reply' = Reply("fish_wait", u, time_left)
                /\ NoSave
           ELSE /\ value >= fish_pool[caught].min_value
                /\ value <= fish_pool[caught].max_value
                /\ user_data' = [ud EXCEPT ![u] =
                       Put(Put(Put(@, "waifame", Get(@, "waifame", 0) + value),
                               "last_fish", now),
                           "fish_caught", Get(@, "fish_caught", 0) + 1)]
                /\ reply' = FishReply(u, caught, value)
                /\ save_user_data(user_data')
        /\ UNCHANGED <<history, video_history, blackjack_games, imageViews,
                       videoViews, bjViews, modals, now, quizViews, suspended, favViews>>

\* ------------------------------------------------------------------- steal
\* target is a member (never a bot here) or None; success is the 40% draw and
\* percent the uniform draw of the stolen share, in hundredths.
steal(u, target, success, percent) ==
    /\ IF target = None
       THEN /\ reply' = Reply("steal_usage", u, 0)
            /\ NoSave
            /\ UNCHANGED user_data
       ELSE IF target = u
       THEN /\ reply' = Reply("steal_self", u, 0)
            /\ NoSave
            /\ UNCHANGED user_data
       ELSE LET ud == get_user_data(get_user_data(user_data, u), target)
                thief_data == ud[u]
                victim_data == ud[target]
                time_left == (Get(thief_data, "last_steal", 0) + StealCooldown) - now
                victim_waifame == Get(victim_data, "waifame", 0)
                stolen == Max((victim_waifame * percent) \div 100, StealMinimum)
                fine == Max((Get(thief_data, "waifame", 0) * 20) \div 100, StealMinimum)
            IN  IF time_left > 0
                THEN /\ user_data' = ud
                     /\ reply' = StealReply("steal_wait", u, target, time_left, 0)
                     /\ NoSave
                ELSE IF victim_waifame < StealMinVictim
                THEN /\ user_data' = ud
                     /\ reply' = StealReply("steal_poor", u, target, victim_waifame, 0)
                     /\ NoSave
                ELSE IF success
                THEN /\ user_data' = [ud EXCEPT
                            ![u] = Put(Put(@, "last_steal", now),
                                       "waifame", Get(@, "waifame", 0) + stolen),
                            ![target] = Put(@, "waifame", Get(@, "waifame", 0) - stolen)]
                     /\ reply' = StealReply("steal_success", u, target, stolen, percent)
                     /\ save_user_data(user_data')
                ELSE /\ user_data' = [ud EXCEPT
                            ![u] = Put(Put(@, "last_steal", now),
                                       "waifame", Max(0, Get(@, "waifame", 0) - fine))]
                     /\ reply' = StealReply("steal_failed", u, target, fine, 0)
                     /\ save_user_data(user_data')
    /\ UNCHANGED <<history, video_history, blackjack_games, imageViews,
                   videoViews, bjViews, modals, now, quizViews, suspended, favViews>>

\* --------------------------------------------------------------- blackjack
\* A card is <<value, suit>>; the values "A", "2".."10", "J", "Q", "K" are
\* 1..13 and the four suits 1..4.
Ace == 1
Jack == 11
NumValues == 13
NumSuits == 4
DeckSize == NumValues * NumSuits

\* A deck of two suits, each twice.
NewDeck_double ==
    [i \in 1..DeckSize |-> <<((i - 1) % NumValues) + 1, (((i - 1) \div NumValues) % 2) + 1>>]

\* deck = [(v, s) for s in suits for v in values]
NewDeck == [i \in 1..DeckSize |-> <<((i - 1) % NumValues) + 1, ((i - 1) \div NumValues) + 1>>]

\* random.shuffle(deck): one of NumShuffles permutations of the new deck.
Shuffle(k) == [i \in 1..DeckSize |-> NewDeck[((3 * (i - 1) + 5 * k + 6) % DeckSize) + 1]]

RECURSIVE CardSum(_)
CardSum(hand) ==
    IF hand = <<>> THEN 0
    ELSE LET card == Head(hand)[1]
         IN  (IF card >= Jack THEN 10 ELSE IF card = Ace THEN 11 ELSE card)
             + CardSum(Tail(hand))

RECURSIVE AceCount(_)
AceCount(hand) ==
    IF hand = <<>> THEN 0
    ELSE (IF Head(hand)[1] = Ace THEN 1 ELSE 0) + AceCount(Tail(hand))

\* An if where the while is meant: one ace at most counts 1.
Soften_once(value, aces) ==
    IF value > 21 /\ aces > 0 THEN value - 10 ELSE value

RECURSIVE Soften(_, _)
Soften(value, aces) ==
    IF value > 21 /\ aces > 0 THEN Soften(value - 10, aces - 1) ELSE value

hand_value(hand) == Soften(CardSum(hand), AceCount(hand))

\* The card at the other end of the deck.
Top_first(deck) == deck[1]

\* The element list.pop() returns.
Top(deck) == deck[Len(deck)]

\* A pop from the wrong end: list.pop(0).
Popped_front(deck) == Tail(deck)

\* The list that list.pop() leaves.
Popped(deck) == SubSeq(deck, 1, Len(deck) - 1)

NewBJView(u, mise) == [user_id |-> u, mise |-> mise, disabled |-> FALSE, finished |-> FALSE]

blackjack(u, mise, k) ==
    /\ IF mise < MinMise
       THEN /\ reply' = WagerReply("blackjack_minimum", u, mise, 0)
            /\ NoSave
            /\ UNCHANGED <<user_data, blackjack_games, bjViews>>
       ELSE LET ud == get_user_data(user_data, u)
                deck0 == Shuffle(k)
                player_hand == <<deck0[DeckSize], deck0[DeckSize - 1]>>
                dealer_hand == <<deck0[DeckSize - 2], deck0[DeckSize - 3]>>
                game == [deck |-> SubSeq(deck0, 1, DeckSize - 4),
                         player |-> player_hand, dealer |-> dealer_hand,
                         mise |-> mise, active |-> TRUE]
                winnings == (mise * 5) \div 2
            IN  IF Get(ud[u], "waifame", 0) < mise
                THEN /\ user_data' = ud
                     /\ reply' = WagerReply("blackjack_insufficient", u, mise, 0)
                     /\ NoSave
                     /\ UNCHANGED <<blackjack_games, bjViews>>
                ELSE IF hand_value(player_hand) = 21
                THEN /\ user_data' = [ud EXCEPT ![u] =
                            Put(@, "waifame", Get(@, "waifame", 0) + winnings - mise)]
                     /\ blackjack_games' = Del(Put(blackjack_games, u, game), u)
                     /\ reply' = WagerReply("blackjack_natural", u, mise, winnings)
                     /\ save_user_data(user_data')
                     /\ UNCHANGED bjViews
                ELSE /\ user_data' = ud
                     /\ blackjack_games' = Put(blackjack_games, u, game)
                     /\ bjViews' = Append(bjViews, NewBJView(u, mise))
                     /\ reply' = WagerReply("blackjack_dealt", u, mise, hand_value(player_hand))
                     /\ NoSave
    /\ UNCHANGED <<history, video_history, imageViews, videoViews, modals, now, quizViews, suspended, favViews>>

\* A button of a view reaches its callback while the view is listening and
\* the button is enabled.
Clickable(view) == ~view.disabled /\ ~view.finished

\* A handler stopped at "await interaction.response.edit_message(...)" of a
\* settled round, with "del blackjack_games[self.user_id]" still to run.
EditMessage(handler, view, user_id) ==
    [kind |-> "edit_message", handler |-> handler, view |-> view, user_id |-> user_id]

\* The Hit button of view v. through: the await of the bust returns before
\* any other handler runs, and the step goes on to the del after it.
hit_to(v, presser, through) ==
    LET view == bjViews[v]
        uid == view.user_id
    IN  /\ Clickable(view)
        /\ IF presser # uid
           THEN /\ reply' = RoundReply("blackjack_not_yours", presser, v, 0)
                /\ NoSave
                /\ UNCHANGED <<user_data, blackjack_games, bjViews, suspended, favViews>>
           ELSE IF ~Has(blackjack_games, uid) \/ ~blackjack_games[uid].active
           THEN /\ reply' = RoundReply("blackjack_over", presser, v, 0)
                /\ NoSave
                /\ UNCHANGED <<user_data, blackjack_games, bjViews, suspended, favViews>>
           ELSE LET game == blackjack_games[uid]
                    player == Append(game.player, Top(game.deck))
                    player_val == hand_value(player)
                    ud == get_user_data(user_data, uid)
                IN  /\ game.deck # <<>>
                    /\ IF player_val > 21
                       THEN /\ user_data' = [ud EXCEPT ![uid] =
                                   Put(@, "waifame", Get(@, "waifame", 0) - view.mise)]
                            /\ bjViews' = [bjViews EXCEPT ![v].disabled = TRUE]
                            /\ blackjack_games' =
                                  IF through THEN Del(blackjack_games, uid)
                                  ELSE [blackjack_games EXCEPT ![uid] =
                                           [game EXCEPT !.player = player,
                                                        !.deck = Popped(game.deck),
                                                        !.active = FALSE]]
                            /\ suspended' =
                                  IF through THEN suspended
                                  ELSE Append(suspended, EditMessage("hit", v, uid))
                            /\ reply' = RoundReply("blackjack_bust", presser, v, player_val)
                            /\ save_user_data(user_data')
                       ELSE /\ blackjack_games' = [blackjack_games EXCEPT ![uid] =
                                   [game EXCEPT !.player = player, !.deck = Popped(game.deck)]]
                            /\ reply' = RoundReply("blackjack_hit", presser, v, player_val)
                            /\ NoSave
                            /\ UNCHANGED <<user_data, bjViews, suspended, favViews>>
        /\ UNCHANGED <<history, video_history, imageViews, videoViews, modals, now, quizViews, favViews>>

\* The Hit button when the edit of the message returns before the event
\* loop runs anything else.
hit(v, presser) == hit_to(v, presser, TRUE)

\* The Hit button up to "await interaction.response.edit_message" of the
\* bust (line 871).
hit_awaiting(v, presser) == hit_to(v, presser, FALSE)

\* while hand_value(dealer) < 17: dealer.append(deck.pop())
RECURSIVE DealerPlay(_, _)
DealerPlay(deck, dealer) ==
    IF hand_value(dealer) < DealerStands /\ deck # <<>>
    THEN DealerPlay(Popped(deck), Append(dealer, Top(deck)))
    ELSE dealer

\* The Stand button of view v. through: as for hit_to.
stand_to(v, presser, through) ==
    LET view == bjViews[v]
        uid == view.user_id
    IN  /\ Clickable(view)
        /\ IF presser # uid
           THEN /\ reply' = RoundReply("blackjack_not_yours", presser, v, 0)
                /\ NoSave
                /\ UNCHANGED <<user_data, blackjack_games, bjViews, suspended, favViews>>
           ELSE IF ~Has(blackjack_games, uid) \/ ~blackjack_games[uid].active
           THEN /\ reply' = RoundReply("blackjack_over", presser, v, 0)
                /\ NoSave
                /\ UNCHANGED <<user_data, blackjack_games, bjViews, suspended, favViews>>
           ELSE LET game == blackjack_games[uid]
                    dealer == DealerPlay(game.deck, game.dealer)
                    player_val == hand_value(game.player)
                    dealer_val == hand_value(dealer)
                    ud == get_user_data(user_data, uid)
                    winnings == view.mise * 2
                IN  /\ IF dealer_val > 21 \/ player_val > dealer_val
                       THEN /\ user_data' = [ud EXCEPT ![uid] =
                                   Put(@, "waifame", Get(@, "waifame", 0) + winnings - view.mise)]
                            /\ reply' = StandReply("blackjack_won", presser, v, player_val, dealer)
                       ELSE IF player_val < dealer_val
                       THEN /\ user_data' = [ud EXCEPT ![uid] =
                                   Put(@, "waifame", Get(@, "waifame", 0) - view.mise)]
                            /\ reply' = StandReply("blackjack_lost", presser, v, player_val, dealer)
                       ELSE /\ user_data' = ud
                            /\ reply' = StandReply("blackjack_push", presser, v, player_val, dealer)
                    /\ bjViews' = [bjViews EXCEPT ![v].disabled = TRUE]
                    /\ save_user_data(user_data')
                    /\ blackjack_games' =
                          IF through THEN Del(blackjack_games, uid)
                          ELSE [blackjack_games EXCEPT ![uid] =
                                   [game EXCEPT !.dealer = dealer,
                                                !.deck = SubSeq(game.deck, 1,
                                                    Len(game.deck) + Len(game.dealer)
                                                    - Len(dealer)),
                                                !.active = FALSE]]
                    /\ suspended' =
                          IF through THEN suspended
                          ELSE Append(suspended, EditMessage("stand", v, uid))
        /\ UNCHANGED <<history, video_history, imageViews, videoViews, modals, now, quizViews, favViews>>

\* The Stand button when the edit of the message returns before the event
\* loop runs anything else.
stand(v, presser) == stand_to(v, presser, TRUE)

\* The Stand button up to "await interaction.response.edit_message"
\* (line 930).
stand_awaiting(v, presser) == stand_to(v, presser, FALSE)

\* The edit of the message is done and the handler goes on:
\* "del blackjack_games[self.user_id]" (lines 872 and 931), a KeyError when
\* the key is not there.
edit_message_returned(i) ==
    LET call == suspended[i]
        uid == call.user_id
    IN  /\ call.kind = "edit_message"
        /\ IF Has(blackjack_games, uid)
           THEN /\ blackjack_games' = Del(blackjack_games, uid)
                /\ reply' = Reply("edit_message_returned", uid, call.view)
           ELSE /\ reply' = Reply("KeyError", uid, call.view)
                /\ UNCHANGED blackjack_games
        /\ suspended' = SubSeq(suspended, 1, i - 1) \o SubSeq(suspended, i + 1, Len(suspended))
        /\ UNCHANGED <<user_data, history, video_history, imageViews, videoViews,
                       bjViews, modals, now, quizViews, favViews, persistence>>


\* A timeout that forfeits the wager.
bj_timeout_forfeit(v) ==
    /\ Clickable(bjViews[v])
    /\ bjViews' = [bjViews EXCEPT ![v].finished = TRUE]
    /\ user_data' = [user_data EXCEPT ![bjViews[v].user_id].waifame = @ - bjViews[v].mise]
    /\ reply' = NoReply
    /\ UNCHANGED <<history, video_history, blackjack_games, imageViews,
                   videoViews, modals, now, quizViews, suspended, favViews, persistence>>

\* BlackjackView(timeout=60): the view stops listening.
bj_timeout(v) ==
    /\ Clickable(bjViews[v])
    /\ bjViews' = [bjViews EXCEPT ![v].finished = TRUE]
    /\ reply' = NoReply
    /\ UNCHANGED <<user_data, history, video_history, blackjack_games, imageViews,
                   videoViews, modals, now, quizViews, suspended, favViews, persistence>>

\* ----------------------------------------------------------------- content
\* A Danbooru post, as far as the bot reads it.
Post(i) == [id |-> i, file_url |-> i, rating |-> "s", tag_string |-> i]

\* get_danbooru_image / get_danbooru_video: the number of the post found, or
\* None.
Fetches == {None} \cup (1..NumPosts)

\* The tag strings in play: the three rating filters, one typed query and one
\* suggestion for it.
SafeTags == "rating:safe"
QuesTags == "rating:questionable"
ExplTags == "rating:explicit"
Query == "cat"
Suggestion == "cat_ears"

\* history[guild].append(post), creating the list first.
Pushed(h, g, post) == Put(h, g, Append(Get(h, g, <<>>), post))

\* A view that pays one waifame.
increment_view_count_paid(ud, uid) ==
    LET ud1 == get_user_data(ud, uid)
    IN  [ud1 EXCEPT ![uid] = Put(Put(@, "view_count", Get(@, "view_count", 0) + 1),
                                 "waifame", Get(@, "waifame", 0) + 1)]

\* increment_view_count: the account map after the call.
increment_view_count(ud, uid) ==
    LET ud1 == get_user_data(ud, uid)
    IN  [ud1 EXCEPT ![uid] = Put(@, "view_count", Get(@, "view_count", 0) + 1)]

\* What increment_view_count returns: data["view_count"], one integer.
returned_view_count(ud, uid) == increment_view_count(ud, uid)[uid]["view_count"]

\* --------------------------------------------------------------- favourites
\* any(p.get('id') == pid for p in user_favs)
HasFav(favs, pid) == \E i \in 1..Len(favs) : favs[i].id = pid

\* A removal that drops the oldest favourite instead of the matching one.
KeepOthers_oldest(favs, pid) == Tail(favs)

\* [p for p in user_favs if p.get('id') != pid]
KeepOthers(favs, pid) == SelectSeq(favs, LAMBDA p : p.id # pid)

\* The snapshot of a post that is stored as a favourite.
fav_post(post) ==
    [id |-> post.id, file_url |-> post.file_url, rating |-> post.rating,
     tag_string |-> post.tag_string,
     tag_string_character |-> Get(post, "tag_string_character", "")]

\* A date check that never resets.
ResetIfNewDay_never(data, today) == data

\* "Reset if new day", the first step of both favourite-limit functions.
ResetIfNewDay(data, today) ==
    IF Get(data, "last_fav_date", None) # today
    THEN Put(Put(data, "daily_favs", 0), "last_fav_date", today)
    ELSE data

\* A limit check that is off by one: "<=" for "<".
can_add_favorite_le(ud, uid, today) ==
    LET ud1 == get_user_data(ud, uid)
        ud2 == [ud1 EXCEPT ![uid] = ResetIfNewDay(@, today)]
    IN  [user_data |-> ud2, ok |-> ud2[uid]["daily_favs"] <= DailyFavLimit]

\* can_add_favorite: the account map after the call, and its answer.
can_add_favorite(ud, uid, today) ==
    LET ud1 == get_user_data(ud, uid)
        ud2 == [ud1 EXCEPT ![uid] = ResetIfNewDay(@, today)]
    IN  [user_data |-> ud2, ok |-> ud2[uid]["daily_favs"] < DailyFavLimit]

\* use_daily_favorite: the account map after the call, and the slots left.
use_daily_favorite(ud, uid, today) ==
    LET ud1 == get_user_data(ud, uid)
        ud2 == [ud1 EXCEPT ![uid] = ResetIfNewDay(@, today)]
        ud3 == [ud2 EXCEPT ![uid] = Put(@, "daily_favs", @["daily_favs"] + 1)]
    IN  [user_data |-> ud3, remaining |-> DailyFavLimit - ud3[uid]["daily_favs"]]

\* --------------------------------------------------------------- ImageView
\* ImageView.__init__: the view object; embed is the post the message it is
\* attached to displays.
ImageView(guild_id, post, tags, user_id) ==
    [guild_id |-> guild_id, post |-> post, current_tags |-> tags,
     user_id |-> user_id, embed |-> post.id]

\* The account map after the favourites of a view's user are read to set the
\* heart button: user_favs = get_user_data(user_id) under "if user_id".
ReadFavorites(ud, user_id) == IF user_id # None THEN get_user_data(ud, user_id) ELSE ud

\* check_user, of ImageView and of VideoView.
check_user(view, presser) == ~(view.user_id # None /\ presser # view.user_id)

NotYours(presser, v) ==
    /\ reply' = Reply("not_yours", presser, v)
    /\ NoSave
    /\ UNCHANGED <<user_data, history, video_history, imageViews, videoViews, modals>>

\* ?next from the return of get_danbooru_image (line 375) to its end:
\* send_main_view when a post was found.
next_fetched(u, g, tags, f) ==
    /\ IF f = None
       THEN /\ reply' = Reply("next_none", u, 0)
            /\ NoSave
            /\ UNCHANGED <<user_data, history, imageViews>>
       ELSE /\ history' = Pushed(history, g, Post(f))
            /\ user_data' = ReadFavorites(increment_view_count(user_data, u), u)
            /\ imageViews' = Append(imageViews, ImageView(g, Post(f), tags, u))
            /\ reply' = [kind |-> "next", user |-> u, val |-> Len(imageViews) + 1,
                          view_count |-> returned_view_count(user_data, u)]
            /\ save_user_data(increment_view_count(user_data, u))
    /\ UNCHANGED <<video_history, blackjack_games, videoViews, bjViews, modals, now, quizViews, favViews>>

\* ?next, whole: requests.get does not return to the event loop, so the
\* handler runs from its first line to its last await as one step.
next(u, g, tags, f) == next_fetched(u, g, tags, f) /\ UNCHANGED suspended

\* ImageView(guild_id, post, tags): the constructor with its default
\* user_id=None, attached to a message. No command of BOT.py builds a view
\* this way; a caller of the class can.
NewImageView(g, tags, f) ==
    /\ f # None
    /\ imageViews' = Append(imageViews, ImageView(g, Post(f), tags, None))
    /\ reply' = Reply("view", None, Len(imageViews) + 1)
    /\ UNCHANGED <<user_data, history, video_history, blackjack_games, videoViews,
                   bjViews, modals, now, quizViews, suspended, favViews, persistence>>

\* update_image, entered with self.current_tags already set to tags. With a
\* bound user the unpacking of increment_view_count's integer raises
\* TypeError after the history, self.post and the view count have changed
\* and before the message is edited.
update_image(v, presser, tags, f) ==
    LET view == [imageViews[v] EXCEPT !.current_tags = tags]
    IN  IF f = None
        THEN /\ imageViews' = [imageViews EXCEPT ![v] = view]
             /\ reply' = Reply("image_error", presser, v)
             /\ NoSave
             /\ UNCHANGED <<user_data, history>>
        ELSE /\ history' = Pushed(history, view.guild_id, Post(f))
             /\ IF view.user_id # None
                THEN /\ user_data' = increment_view_count(user_data, view.user_id)
                     /\ imageViews' = [imageViews EXCEPT ![v] = [view EXCEPT !.post = Post(f)]]
                     /\ reply' = Reply("TypeError", presser, v)
                     /\ save_user_data(user_data')
                ELSE /\ imageViews' = [imageViews EXCEPT ![v] =
                            [view EXCEPT !.post = Post(f), !.embed = f]]
                     /\ reply' = Reply("image", presser, v)
                     /\ NoSave
                     /\ UNCHANGED user_data

\* safe_callback, ques_callback, expl_callback and next_callback.
RatingCallback(v, presser, tags, f) ==
    /\ IF check_user(imageViews[v], presser)
       THEN update_image(v, presser, tags, f) /\ UNCHANGED <<video_history, videoViews, modals>>
       ELSE NotYours(presser, v)
    /\ UNCHANGED <<blackjack_games, bjViews, now, quizViews, suspended, favViews>>

safe_callback(v, presser, f) == RatingCallback(v, presser, SafeTags, f)

ques_callback(v, presser, f) == RatingCallback(v, presser, QuesTags, f)

expl_callback(v, presser, f) == RatingCallback(v, presser, ExplTags, f)

next_callback(v, presser, f) == RatingCallback(v, presser, imageViews[v].current_tags, f)

help_callback(v, presser) ==
    /\ reply' = Reply("help", presser, v)
    /\ UNCHANGED <<user_data, history, video_history, blackjack_games, imageViews,
                   videoViews, bjViews, modals, now, quizViews, suspended, favViews, persistence>>

rewind_callback(v, presser) ==
    LET view == imageViews[v]
        g == view.guild_id
    IN  /\ IF ~check_user(view, presser)
           THEN NotYours(presser, v)
           ELSE IF Has(history, g) /\ Len(history[g]) > 1
           THEN LET popped == Popped(history[g])
                    prev_post == popped[Len(popped)]
                IN  /\ history' = [history EXCEPT ![g] = popped]
                    /\ user_data' = ReadFavorites(user_data, view.user_id)
                    /\ imageViews' = [imageViews EXCEPT ![v] =
                           [view EXCEPT !.post = prev_post, !.embed = prev_post.id]]
                    /\ reply' = Reply("rewind", presser, v)
                    /\ NoSave
                    /\ UNCHANGED <<video_history, videoViews, modals>>
           ELSE /\ reply' = Reply("rewind_nothing", presser, v)
                /\ NoSave
                /\ UNCHANGED <<user_data, history, video_history, imageViews,
                               videoViews, modals>>
        /\ UNCHANGED <<blackjack_games, bjViews, now, quizViews, suspended, favViews>>

\* fav_callback past check_user, as a function of the account map, the view,
\* the presser and the date: the account map and the view it leaves, and the
\* response.
FavToggle(ud, view, presser, today) ==
    LET uid == IF view.user_id = None THEN presser ELSE view.user_id
        bound == [view EXCEPT !.user_id = uid]
        ud1 == get_user_data(ud, uid)
        user_favs == Get(ud1[uid], "favorites", <<>>)
        pid == view.post.id
        gate == can_add_favorite(ud1, uid, today)
        added == [gate.user_data EXCEPT ![uid] =
                     Put(@, "favorites", Append(@["favorites"], fav_post(view.post)))]
        used == use_daily_favorite(added, uid, today)
    IN  IF HasFav(user_favs, pid)
        THEN [user_data |-> [ud1 EXCEPT ![uid] =
                                Put(@, "favorites", KeepOthers(user_favs, pid))],
              view |-> bound, kind |-> "fav_removed"]
        ELSE IF ~gate.ok
        THEN [user_data |-> gate.user_data, view |-> bound, kind |-> "fav_limit"]
        ELSE [user_data |-> used.user_data, view |-> bound, kind |-> "fav_added"]

fav_callback(v, presser) ==
    /\ IF ~check_user(imageViews[v], presser)
       THEN NotYours(presser, v)
       ELSE LET r == FavToggle(user_data, imageViews[v], presser, get_today_date(now))
            IN  /\ user_data' = r.user_data
                /\ imageViews' = [imageViews EXCEPT ![v] = r.view]
                /\ reply' = FavReply(r.kind, presser, v, imageViews[v].post.id)
                /\ IF r.kind = "fav_limit" THEN NoSave ELSE save_user_data(r.user_data)
                /\ UNCHANGED <<history, video_history, videoViews, modals>>
    /\ UNCHANGED <<blackjack_games, bjViews, now, quizViews, suspended, favViews>>

\* ------------------------------------------------------------------ search
\* search_callback: the modal opens for the presser.
search_callback(v, presser) ==
    /\ IF ~check_user(imageViews[v], presser)
       THEN NotYours(presser, v)
       ELSE /\ modals' = modals \cup
                   {[kind |-> "modal", message |-> v, user_id |-> imageViews[v].user_id,
                     opener |-> presser, query |-> ""]}
            /\ reply' = Reply("modal", presser, v)
            /\ NoSave
            /\ UNCHANGED <<user_data, history, video_history, imageViews, videoViews>>
    /\ UNCHANGED <<blackjack_games, bjViews, now, quizViews, suspended, favViews>>

\* do_search and the body of select_callback: a post found for tags replaces
\* the view of the original message.
ShowSearch(m, tags, post) ==
    LET g == imageViews[m.message].guild_id
    IN  /\ history' = Pushed(history, g, post)
        /\ user_data' = ReadFavorites(increment_view_count(user_data, m.user_id), m.user_id)
        /\ imageViews' = [imageViews EXCEPT ![m.message] = ImageView(g, post, tags, m.user_id)]
        /\ save_user_data(increment_view_count(user_data, m.user_id))

\* TagSearchModal.on_submit: many is "len(suggestions) > 1".
on_submit(m, many, f) ==
    /\ m.kind = "modal"
    /\ IF many
       THEN /\ modals' = (modals \ {m}) \cup {[m EXCEPT !.kind = "select", !.query = Query]}
            /\ reply' = Reply("suggestions", m.opener, m.message)
            /\ NoSave
            /\ UNCHANGED <<user_data, history, imageViews>>
       ELSE /\ modals' = modals \ {m}
            /\ IF f = None
               THEN /\ reply' = Reply("search_none", m.opener, m.message)
                    /\ NoSave
                    /\ UNCHANGED <<user_data, history, imageViews>>
               ELSE /\ ShowSearch(m, Query, Post(f))
                    /\ reply' = Reply("search", m.opener, m.message)
    /\ UNCHANGED <<video_history, blackjack_games, videoViews, bjViews, now, quizViews, suspended, favViews>>

\* TagSelectView.select_callback: the suggestion list is deleted when a post
\* was shown.
select_callback(m, selected_tag, f) ==
    /\ m.kind = "select"
    /\ IF f = None
       THEN /\ reply' = Reply("search_none", m.opener, m.message)
            /\ NoSave
            /\ UNCHANGED <<user_data, history, imageViews, modals>>
       ELSE /\ ShowSearch(m, selected_tag, Post(f))
            /\ modals' = modals \ {m}
            /\ reply' = Reply("search", m.opener, m.message)
    /\ UNCHANGED <<video_history, blackjack_games, videoViews, bjViews, now, quizViews, suspended, favViews>>

\* TagSelectView(timeout=60): the suggestion list stops listening.
select_timeout(m) ==
    /\ m.kind = "select"
    /\ modals' = modals \ {m}
    /\ reply' = NoReply
    /\ UNCHANGED <<user_data, history, video_history, blackjack_games, imageViews,
                   videoViews, bjViews, now, quizViews, suspended, favViews, persistence>>

\* --------------------------------------------------------------- VideoView
\* VideoView.__init__; video_message is the post the companion message
\* carries.
VideoView(guild_id, post, tags, user_id) ==
    [guild_id |-> guild_id, post |-> post, current_tags |-> tags,
     user_id |-> user_id, embed |-> post.id, video_message |-> post.id]

VideoNotYours(presser, v) ==
    /\ reply' = Reply("video_not_yours", presser, v)
    /\ NoSave
    /\ UNCHANGED <<user_data, video_history, videoViews>>

\* ?vnext: the unpacking of increment_view_count's integer raises TypeError
\* once the post is in the video history and the view is counted, so the
\* command never reaches the construction of its VideoView.
vnext(u, g, f) ==
    /\ IF f = None
       THEN /\ reply' = Reply("vnext_none", u, 0)
            /\ NoSave
            /\ UNCHANGED <<user_data, video_history>>
       ELSE /\ video_history' = Pushed(video_history, g, Post(f))
            /\ user_data' = increment_view_count(user_data, u)
            /\ reply' = Reply("vnext_TypeError", u, 0)
            /\ save_user_data(user_data')
    /\ UNCHANGED <<history, blackjack_games, imageViews, videoViews, bjViews, modals, now, quizViews, suspended, favViews>>

\* VideoView(guild_id, post, tags, user_id, video_message), attached to a
\* message, as line 428 would build it: the constructor called by a user of
\* the class, since vnext raises before it.
NewVideoView(g, tags, user_id, f) ==
    /\ f # None
    /\ videoViews' = Append(videoViews, VideoView(g, Post(f), tags, user_id))
    /\ reply' = Reply("video_view", user_id, Len(videoViews) + 1)
    /\ UNCHANGED <<user_data, history, video_history, blackjack_games, imageViews,
                   bjViews, modals, now, quizViews, suspended, favViews, persistence>>

\* update_video, entered with self.current_tags already set to tags.
update_video(v, presser, tags, f) ==
    LET view == [videoViews[v] EXCEPT !.current_tags = tags]
    IN  IF f = None
        THEN /\ videoViews' = [videoViews EXCEPT ![v] = view]
             /\ reply' = Reply("video_error", presser, v)
             /\ NoSave
             /\ UNCHANGED <<user_data, video_history>>
        ELSE /\ video_history' = Pushed(video_history, view.guild_id, Post(f))
             /\ IF view.user_id # None
                THEN /\ user_data' = increment_view_count(user_data, view.user_id)
                     /\ videoViews' = [videoViews EXCEPT ![v] = [view EXCEPT !.post = Post(f)]]
                     /\ reply' = Reply("video_TypeError", presser, v)
                     /\ save_user_data(user_data')
                ELSE /\ videoViews' = [videoViews EXCEPT ![v] =
                            [view EXCEPT !.post = Post(f), !.embed = f, !.video_message = f]]
                     /\ reply' = Reply("video", presser, v)
                     /\ NoSave
                     /\ UNCHANGED user_data

\* VideoView's safe_callback, ques_callback, expl_callback and next_callback.
VideoRatingCallback(v, presser, tags, f) ==
    /\ IF check_user(videoViews[v], presser)
       THEN update_video(v, presser, tags, f)
       ELSE VideoNotYours(presser, v)
    /\ UNCHANGED <<history, blackjack_games, imageViews, bjViews, modals, now, quizViews, suspended, favViews>>

video_safe_callback(v, presser, f) == VideoRatingCallback(v, presser, SafeTags, f)

video_ques_callback(v, presser, f) == VideoRatingCallback(v, presser, QuesTags, f)

video_expl_callback(v, presser, f) == VideoRatingCallback(v, presser, ExplTags, f)

video_next_callback(v, presser, f) ==
    VideoRatingCallback(v, presser, videoViews[v].current_tags, f)

video_help_callback(v, presser) ==
    /\ reply' = Reply("video_help", presser, v)
    /\ UNCHANGED <<user_data, history, video_history, blackjack_games, imageViews,
                   videoViews, bjViews, modals, now, quizViews, suspended, favViews, persistence>>

video_rewind_callback(v, presser) ==
    LET view == videoViews[v]
        g == view.guild_id
    IN  /\ IF ~check_user(view, presser)
           THEN VideoNotYours(presser, v)
           ELSE IF Has(video_history, g) /\ Len(video_history[g]) > 1
           THEN LET popped == Popped(video_history[g])
                    prev_post == popped[Len(popped)]
                IN  /\ video_history' = [video_history EXCEPT ![g] = popped]
                    /\ videoViews' = [videoViews EXCEPT ![v] =
                           [view EXCEPT !.post = prev_post, !.embed = prev_post.id,
                                        !.video_message = prev_post.id]]
                    /\ reply' = Reply("video_rewind", presser, v)
                    /\ NoSave
                    /\ UNCHANGED user_data
           ELSE /\ reply' = Reply("video_rewind_nothing", presser, v)
                /\ NoSave
                /\ UNCHANGED <<user_data, video_history, videoViews>>
        /\ UNCHANGED <<history, blackjack_games, imageViews, bjViews, modals, now, quizViews, suspended, favViews>>

\* ------------------------------------------------------------------- admin
ResetAccount ==
    [favorites |-> <<>>, view_count |-> 0, waifame |-> 0, daily_favs |-> 0,
     last_fav_date |-> NoDate, daily_streak |-> 0, last_daily |-> NoDate,
     fish_caught |-> 0, last_fish |-> 0, last_steal |-> 0]

\* ?reset [target]: target None resets the caller.
reset(u, target) ==
    LET user_id == IF target = None THEN u ELSE target
    IN  /\ IF u # ADMIN_ID
           THEN /\ reply' = Reply("admin_only", u, 0)
                /\ NoSave
                /\ UNCHANGED user_data
           ELSE IF Has(user_data, user_id)
           THEN /\ user_data' = [user_data EXCEPT ![user_id] = ResetAccount]
                /\ reply' = Reply("reset", u, user_id)
                /\ save_user_data(user_data')
           ELSE /\ reply' = Reply("reset_unknown", u, user_id)
                /\ NoSave
                /\ UNCHANGED user_data
        /\ UNCHANGED <<history, video_history, blackjack_games, imageViews,
                       videoViews, bjViews, modals, now, quizViews, suspended, favViews>>

\* ?give with no test of the caller.
give_unchecked(u, target, amount) ==
    /\ IF target = None \/ amount <= 0
       THEN /\ reply' = Reply("give_usage", u, 0)
            /\ NoSave
            /\ UNCHANGED user_data
       ELSE /\ user_data' = [get_user_data(user_data, target) EXCEPT
                                ![target].waifame = @ + amount]
            /\ reply' = [kind |-> "give", user |-> u, val |-> target, amount |-> amount,
                         total |-> user_data'[target].waifame]
            /\ save_user_data(user_data')
    /\ UNCHANGED <<history, video_history, blackjack_games, imageViews,
                   videoViews, bjViews, modals, now, quizViews, suspended, favViews>>

\* ?give [target] [amount]: target None and amount 0 are the defaults.
give(u, target, amount) ==
    /\ IF u # ADMIN_ID
       THEN /\ reply' = Reply("admin_only", u, 0)
            /\ NoSave
            /\ UNCHANGED user_data
       ELSE IF target = None \/ amount <= 0
       THEN /\ reply' = Reply("give_usage", u, 0)
            /\ NoSave
            /\ UNCHANGED user_data
       ELSE /\ user_data' = [get_user_data(user_data, target) EXCEPT
                                ![target].waifame = @ + amount]
            /\ reply' = [kind |-> "give", user |-> u, val |-> target, amount |-> amount,
                         total |-> user_data'[target].waifame]
            /\ save_user_data(user_data')
    /\ UNCHANGED <<history, video_history, blackjack_games, imageViews,
                   videoViews, bjViews, modals, now, quizViews, suspended, favViews>>

\* -------------------------------------------------------------------- time
Tick ==
    /\ (now % TicksPerDay) < MaxTicks
    /\ now' = now + 1
    /\ reply' = NoReply
    /\ UNCHANGED <<user_data, history, video_history, blackjack_games, imageViews,
                   videoViews, bjViews, modals, quizViews, suspended, favViews, persistence>>

\* Midnight passes, on one of the first days days.
DayPasses(days) ==
    /\ (now \div TicksPerDay) < 1 + days
    /\ now' = now + TicksPerDay
    /\ reply' = NoReply
    /\ UNCHANGED <<user_data, history, video_history, blackjack_games, imageViews,
                   videoViews, bjViews, modals, quizViews, suspended, favViews, persistence>>

NextDay == DayPasses(MaxDays)

\* ---------------------------------------------------------- specifications
Init ==
    /\ user_data = EmptyDict
    /\ history = EmptyDict
    /\ video_history = EmptyDict
    /\ blackjack_games = EmptyDict
    /\ imageViews = <<>>
    /\ videoViews = <<>>
    /\ bjViews = <<>>
    /\ modals = {}
    /\ now = TicksPerDay
    /\ reply = NoReply
    /\ quizViews = <<>>
    /\ suspended = <<>>
    /\ favViews = <<>>
    /\ db = EmptyDict
    /\ json_file = NoFile
    /\ db_up = TRUE

\* The bounds of a run: no balance above cap, no more blackjack views than
\* MaxBJViews.
Bounded(cap) ==
    /\ \A u \in DOMAIN user_data : Get(user_data[u], "waifame", 0) <= cap
    /\ \A u \in DOMAIN user_data : Get(user_data[u], "fish_caught", 0) <= MaxFishCaught
    /\ Len(bjViews) <= MaxBJViews

\* The wager games: the daily claim that funds them, slots and blackjack.
NextGames ==
    \/ \E u \in Users, mise \in Wagers, result \in SlotDraws :
          slots(u, mise, result) /\ Bounded(MaxWaifame)'
    \/ \E u \in Users, base \in DailyDraws : daily(u, base) /\ Bounded(MaxWaifame)'
    \/ \E u \in Users, mise \in Wagers, k \in 1..NumShuffles :
          blackjack(u, mise, k) /\ Bounded(MaxWaifame)'
    \/ \E v \in DOMAIN bjViews, presser \in Users : hit(v, presser)
    \/ \E v \in DOMAIN bjViews, presser \in Users :
          stand(v, presser) /\ Bounded(MaxWaifame)'
    \/ \E v \in DOMAIN bjViews : bj_timeout(v)

SpecGames == Init /\ [][NextGames]_vars

\* The slot machine alone, over every triple the reels can show, from an
\* account holding what a daily claim or an admin gift left it.
StartBalances == {0, MinMise, 60}

InitSlots ==
    /\ \E b \in StartBalances :
          user_data = Put(EmptyDict, 1, Put(NewAccount, "waifame", b))
    /\ history = EmptyDict
    /\ video_history = EmptyDict
    /\ blackjack_games = EmptyDict
    /\ imageViews = <<>>
    /\ videoViews = <<>>
    /\ bjViews = <<>>
    /\ modals = {}
    /\ now = TicksPerDay
    /\ reply = NoReply
    /\ quizViews = <<>>
    /\ suspended = <<>>
    /\ favViews = <<>>
    /\ db = Upsert(EmptyDict, user_data)
    /\ json_file = NoFile
    /\ db_up = TRUE

NextSlots ==
    \E u \in Users, mise \in Wagers, result \in SlotResults :
        slots(u, mise, result) /\ Bounded(MaxSlotsWaifame)'

SpecSlots == InitSlots /\ [][NextSlots]_vars

\* The bounds of a run with views: the entries of the two histories
\* together, the views together, the open search forms, and the view counts.
RECURSIVE HistoryLen(_)
HistoryLen(h) ==
    IF DOMAIN h = {} THEN 0
    ELSE LET g == CHOOSE x \in DOMAIN h : TRUE
         IN  Len(h[g]) + HistoryLen(Del(h, g))

ViewsBounded ==
    /\ HistoryLen(history) + HistoryLen(video_history) <= MaxHistory
    /\ Len(imageViews) + Len(videoViews) <= MaxViews
    /\ Cardinality(modals) <= MaxModals
    /\ \A u \in DOMAIN user_data : Get(user_data[u], "view_count", 0) <= MaxViewCount

\* The bound on the favourites added in a run where they are not the subject.
FavsBounded ==
    \A u \in DOMAIN user_data : Get(user_data[u], "daily_favs", 0) <= MaxFavsUsed

\* Favourites: images shown by ?next and its Suivant button, the heart
\* button, the passing of days and the admin's reset.
NextFav ==
    \/ \E u \in Users, g \in Guilds, f \in Fetches : next(u, g, SafeTags, f) /\ ViewsBounded'
    \/ \E v \in DOMAIN imageViews, presser \in Users, f \in Fetches :
          next_callback(v, presser, f) /\ ViewsBounded'
    \/ \E v \in DOMAIN imageViews, presser \in Users : fav_callback(v, presser)
    \/ \E u \in Users, target \in Users \cup {None} : reset(u, target)
    \/ NextDay

SpecFav == Init /\ [][NextFav]_vars

\* The image and video sessions: the commands, every button of the two
\* views, the search form and its suggestion list.
NextSessions ==
    \/ \E u \in Users, g \in Guilds, f \in Fetches : next(u, g, SafeTags, f) /\ ViewsBounded'
    \/ \E u \in Users, g \in Guilds, f \in Fetches : vnext(u, g, f) /\ ViewsBounded'
    \/ \E g \in Guilds, u \in Users \cup {None}, f \in Fetches :
          NewVideoView(g, SafeTags, u, f) /\ ViewsBounded'
    \/ \E v \in DOMAIN imageViews, presser \in Users, f \in Fetches :
          \/ safe_callback(v, presser, f) /\ ViewsBounded'
          \/ ques_callback(v, presser, f) /\ ViewsBounded'
          \/ expl_callback(v, presser, f) /\ ViewsBounded'
          \/ next_callback(v, presser, f) /\ ViewsBounded'
    \/ \E v \in DOMAIN imageViews, presser \in Users :
          \/ rewind_callback(v, presser)
          \/ help_callback(v, presser)
          \/ fav_callback(v, presser) /\ FavsBounded'
          \/ search_callback(v, presser) /\ ViewsBounded'
    \/ \E m \in modals, many \in BOOLEAN, f \in Fetches : on_submit(m, many, f) /\ ViewsBounded'
    \/ \E m \in modals, tag \in {Suggestion, Query}, f \in Fetches :
          select_callback(m, tag, f) /\ ViewsBounded'
    \/ \E m \in modals : select_timeout(m)
    \/ \E v \in DOMAIN videoViews, presser \in Users, f \in Fetches :
          \/ video_safe_callback(v, presser, f) /\ ViewsBounded'
          \/ video_ques_callback(v, presser, f) /\ ViewsBounded'
          \/ video_expl_callback(v, presser, f) /\ ViewsBounded'
          \/ video_next_callback(v, presser, f) /\ ViewsBounded'
    \/ \E v \in DOMAIN videoViews, presser \in Users :
          \/ video_rewind_callback(v, presser)
          \/ video_help_callback(v, presser)

SpecSessions == Init /\ [][NextSessions]_vars

\* Image sessions built without a user, and the buttons that act on the
\* view itself (the search form puts another view in its place).
NextUnbound ==
    \/ \E g \in Guilds, f \in Fetches : NewImageView(g, SafeTags, f) /\ ViewsBounded'
    \/ \E v \in DOMAIN imageViews, presser \in Users, f \in Fetches :
          \/ safe_callback(v, presser, f) /\ ViewsBounded'
          \/ ques_callback(v, presser, f) /\ ViewsBounded'
          \/ expl_callback(v, presser, f) /\ ViewsBounded'
          \/ next_callback(v, presser, f) /\ ViewsBounded'
    \/ \E v \in DOMAIN imageViews, presser \in Users :
          \/ rewind_callback(v, presser)
          \/ help_callback(v, presser)
          \/ fav_callback(v, presser) /\ FavsBounded'

SpecUnbound == Init /\ [][NextUnbound]_vars

\* ------------------------------------------------------------------ claims

\* C1: after any sequence of slots, blackjack, hit, stand and daily claims
\* from empty accounts, every account's waifame is >= 0.
C1_BalanceNeverNegative ==
    \A u \in DOMAIN user_data : Get(user_data[u], "waifame", 0) >= 0

\* C8: a user never has more than one blackjack view through which a card can
\* still be drawn or a round settled.
OpenSessions(u) ==
    {v \in DOMAIN bjViews :
        /\ bjViews[v].user_id = u
        /\ Clickable(bjViews[v])
        /\ Has(blackjack_games, u)
        /\ blackjack_games[u].active}

C8_OneOpenSessionPerUser ==
    \A u \in Users : Cardinality(OpenSessions(u)) <= 1

\* C9: a slots or blackjack command whose wager is below 10 or above the
\* caller's balance is rejected and changes no balance, no other account,
\* no blackjack round and no blackjack view.
WagerCommandKinds ==
    {"slots_minimum", "slots_insufficient", "slots",
     "blackjack_minimum", "blackjack_insufficient", "blackjack_natural",
     "blackjack_dealt"}

WagerRejectedKinds ==
    {"slots_minimum", "slots_insufficient",
     "blackjack_minimum", "blackjack_insufficient"}

C9_BadWagerRejectedUnchanged ==
    [][(/\ reply'.kind \in WagerCommandKinds
        /\ (reply'.mise < 10 \/ reply'.mise > Balance(user_data, reply'.user)))
       => /\ reply'.kind \in WagerRejectedKinds
          /\ \A x \in Users : Balance(user_data', x) = Balance(user_data, x)
          /\ \A x \in DOMAIN user_data : x # reply'.user => user_data'[x] = user_data[x]
          /\ DOMAIN user_data' \subseteq DOMAIN user_data \cup {reply'.user}
          /\ blackjack_games' = blackjack_games
          /\ bjViews' = bjViews]_vars

\* A wager above the balance has been rejected while another account holds
\* waifame and a round is open.
C9_Witness ==
    /\ reply.kind \in {"slots_insufficient", "blackjack_insufficient"}
    /\ reply.mise >= 10
    /\ \E x \in DOMAIN user_data : x # reply.user /\ Get(user_data[x], "waifame", 0) > 0
    /\ DOMAIN blackjack_games # {}

\* C10: an accepted spin of wager w leaves balance - w + w * m, m by the
\* rarity of the symbols drawn.
Weight(symbol) == SlotWeights[CHOOSE i \in 1..5 : SlotSymbols[i] = symbol]

Rarer(symbol) == {i \in 1..5 : SlotWeights[i] < Weight(symbol)}

ClaimedMultiplier(result) ==
    LET shown == {result[i] : i \in 1..3}
    IN  IF Cardinality(shown) = 1
        THEN IF Cardinality(Rarer(result[1])) = 0 THEN 20
             ELSE IF Cardinality(Rarer(result[1])) = 1 THEN 15
             ELSE 10
        ELSE IF Cardinality(shown) = 2 THEN 2
        ELSE 0

C10_SlotsPayout ==
    [][reply'.kind = "slots"
       => Balance(user_data', reply'.user) =
            Balance(user_data, reply'.user) - reply'.mise
            + reply'.mise * ClaimedMultiplier(reply'.result)]_vars

\* A spin of three diamonds, the second-rarest symbol, has paid 15 times the
\* wager.
C10_Witness ==
    /\ reply.kind = "slots"
    /\ reply.result = <<"diamond", "diamond", "diamond">>
    /\ Balance(user_data, reply.user) >= 14 * reply.mise

\* The favourites, the counter and the stored date a reader of account u
\* sees.
Favorites(ud, u) == IF Has(ud, u) THEN Get(ud[u], "favorites", <<>>) ELSE <<>>

DailyFavs(ud, u) == IF Has(ud, u) THEN Get(ud[u], "daily_favs", 0) ELSE 0

LastFavDate(ud, u) == IF Has(ud, u) THEN Get(ud[u], "last_fav_date", NoDate) ELSE NoDate

\* The account a press of the heart button by presser acts on.
FavAccount(view, presser) == IF view.user_id = None THEN presser ELSE view.user_id

\* C2: daily_favs stays within 0..5; an accepted add on the stored date
\* raises it by exactly one, and with the counter at 5 on that date the add
\* is rejected and the account is left as it was.
C2_DailyFavLimit ==
    /\ [](\A u \in DOMAIN user_data : Get(user_data[u], "daily_favs", 0) \in 0..5)
    /\ [][\A u \in Users :
            (/\ reply'.kind \in {"fav_added", "fav_limit"}
             /\ reply'.user = u
             /\ LastFavDate(user_data, u) = get_today_date(now))
            => IF DailyFavs(user_data, u) = 5
               THEN reply'.kind = "fav_limit" /\ user_data'[u] = user_data[u]
               ELSE /\ reply'.kind = "fav_added"
                    /\ DailyFavs(user_data', u) = DailyFavs(user_data, u) + 1]_vars

\* A sixth add on one date has been rejected with the counter at 5.
C2_Witness ==
    /\ reply.kind = "fav_limit"
    /\ DailyFavs(user_data, reply.user) = 5
    /\ LastFavDate(user_data, reply.user) = get_today_date(now)

\* The stale full counter: all five slots used on an earlier date, and a view
\* on which the account's user can favourite a new post.
StaleFull(v, u) ==
    /\ check_user(imageViews[v], u)
    /\ FavAccount(imageViews[v], u) = u
    /\ DailyFavs(user_data, u) = 5
    /\ LastFavDate(user_data, u) # get_today_date(now)
    /\ ~HasFav(Favorites(user_data, u), imageViews[v].post.id)

\* What a step that lowers the counter of account u is, besides the admin's
\* reset: a favourite add or limit check by u on a date other than the
\* stored one.
LazyReset(u) ==
    /\ reply'.kind \in {"fav_added", "fav_limit"}
    /\ reply'.user = u
    /\ LastFavDate(user_data, u) # get_today_date(now)

\* An add or limit check on a date other than the stored one is accepted and
\* leaves the counter at 1 and the stored date at today.
ResetOnAccess ==
    /\ [](\A v \in DOMAIN imageViews, u \in Users :
            StaleFull(v, u) =>
              LET r == FavToggle(user_data, imageViews[v], u, get_today_date(now))
              IN  /\ r.kind = "fav_added"
                  /\ DailyFavs(r.user_data, u) = 1
                  /\ LastFavDate(r.user_data, u) = get_today_date(now))
    /\ [][\A u \in Users : LazyReset(u) =>
            /\ reply'.kind = "fav_added"
            /\ DailyFavs(user_data', u) = 1
            /\ LastFavDate(user_data', u) = get_today_date(now)]_vars

\* C3 as stated: the counter is reset lazily on an access on another date,
\* and no other step lowers it.
C3_OnlyAccessResets ==
    /\ ResetOnAccess
    /\ [][\A u \in Users :
            DailyFavs(user_data', u) < DailyFavs(user_data, u) => LazyReset(u)]_vars

\* C3, amended: the counter is reset lazily on an access on another date,
\* and no other step lowers it but the admin's reset of that account.
C3_AccessOrAdminResets ==
    /\ ResetOnAccess
    /\ [][\A u \in Users :
            DailyFavs(user_data', u) < DailyFavs(user_data, u)
            => \/ LazyReset(u)
               \/ reply'.kind = "reset" /\ reply'.val = u]_vars

\* An account's five slots were used on an earlier date and its user faces a
\* post to favourite.
C3_Witness == \E v \in DOMAIN imageViews, u \in Users : StaleFull(v, u)

\* C4: where the heart button would add the displayed post (not a favourite
\* yet, a slot free), pressing it twice adds and then removes, and the
\* favourites are the sequence they were; every removal deletes the one entry
\* with the post's id and keeps the others in order.
CanAdd(v, u) ==
    /\ check_user(imageViews[v], u)
    /\ ~HasFav(Favorites(user_data, FavAccount(imageViews[v], u)), imageViews[v].post.id)
    /\ can_add_favorite(user_data, FavAccount(imageViews[v], u), get_today_date(now)).ok

Entries(h, g) == Get(h, g, <<>>)

RewindDone(h, hNext, view, viewNext, done) ==
    LET old == Entries(h, view.guild_id)
    IN  IF Len(old) < 2
        THEN ~done /\ hNext = h /\ viewNext = view
        ELSE /\ done
             /\ Entries(hNext, view.guild_id) = SubSeq(old, 1, Len(old) - 1)
             /\ viewNext.post = old[Len(old) - 1]

C5_Rewind ==
    [][/\ reply'.kind \in {"rewind", "rewind_nothing"}
          => /\ RewindDone(history, history', imageViews[reply'.val],
                           imageViews'[reply'.val], reply'.kind = "rewind")
             /\ reply'.kind = "rewind_nothing" => UNCHANGED <<user_data, video_history, videoViews>>
       /\ reply'.kind \in {"video_rewind", "video_rewind_nothing"}
          => /\ RewindDone(video_history, video_history', videoViews[reply'.val],
                           videoViews'[reply'.val], reply'.kind = "video_rewind")
             /\ reply'.kind = "video_rewind_nothing" => UNCHANGED <<user_data, history, imageViews>>
       /\ \A g \in Guilds :
             /\ Len(Entries(history, g)) >= 1 => Len(Entries(history', g)) >= 1
             /\ Len(Entries(video_history, g)) >= 1 => Len(Entries(video_history', g)) >= 1]_vars

\* An image view has been rewound from two entries to one, which it shows.
C5_Witness ==
    /\ reply.kind = "rewind"
    /\ Len(Entries(history, imageViews[reply.val].guild_id)) = 1
    /\ imageViews[reply.val].post = history[imageViews[reply.val].guild_id][1]

\* C6: on a view bound to a user, a press of any button by another user is
\* answered with the rejection and changes nothing.
ImageButtonKinds ==
    {"not_yours", "image", "image_error", "TypeError", "rewind", "rewind_nothing",
     "modal", "help", "fav_added", "fav_removed", "fav_limit"}

VideoButtonKinds ==
    {"video_not_yours", "video", "video_error", "video_TypeError", "video_rewind",
     "video_rewind_nothing", "video_help"}

ByAnother(view, presser) == view.user_id # None /\ presser # view.user_id

C6_OtherUserRejected ==
    [][/\ (reply'.kind \in ImageButtonKinds /\ ByAnother(imageViews[reply'.val], reply'.user))
          => /\ reply'.kind = "not_yours"
             /\ UNCHANGED <<user_data, history, video_history, imageViews, videoViews, modals>>
       /\ (reply'.kind \in VideoButtonKinds /\ ByAnother(videoViews[reply'.val], reply'.user))
          => /\ reply'.kind = "video_not_yours"
             /\ UNCHANGED <<user_data, history, video_history, imageViews, videoViews, modals>>]_vars

\* Another user's press on a bound view has been answered.
C6_Witness ==
    /\ reply.kind \in {"not_yours", "help"}
    /\ ByAnother(imageViews[reply.val], reply.user)

TheftBalances == {5, 49, 50, 100}

\* Each user has no account yet, or an account holding one of TheftBalances.
InitTheft ==
    /\ \E known \in SUBSET Users :
          \E b \in [known -> TheftBalances] :
             user_data = [u \in known |-> Put(NewAccount, "waifame", b[u])]
    /\ history = EmptyDict
    /\ video_history = EmptyDict
    /\ blackjack_games = EmptyDict
    /\ imageViews = <<>>
    /\ videoViews = <<>>
    /\ bjViews = <<>>
    /\ modals = {}
    /\ now = TicksPerDay
    /\ reply = NoReply
    /\ quizViews = <<>>
    /\ suspended = <<>>
    /\ favViews = <<>>
    /\ db = Upsert(EmptyDict, user_data)
    /\ json_file = NoFile
    /\ db_up = TRUE

\* The members a thief can name: the users, and one who never ran a command.
Targets == Users \cup {3}

NextTheft ==
    \/ \E u \in Users, target \in Targets \cup {None}, success \in BOOLEAN,
          percent \in StealPercents : steal(u, target, success, percent)
    \/ Tick

SpecTheft == InitTheft /\ [][NextTheft]_vars

\* C11: a successful theft moves s = max(floor(share * victim's balance), 10),
\* share between 10% and 30%, in one step: the thief gains s, the victim loses
\* s, the sum of the two balances is unchanged and the victim's balance is not
\* negative afterwards.
C11_TheftTransfers ==
    [][reply'.kind = "steal_success"
       => LET thief == reply'.user
              victim == reply'.target
              floored == (Balance(user_data, victim) * reply'.percent) \div 100
              s == IF floored > 10 THEN floored ELSE 10
          IN  /\ reply'.percent >= 10 /\ reply'.percent <= 30
              /\ reply'.val = s
              /\ Balance(user_data', thief) = Balance(user_data, thief) + s
              /\ Balance(user_data', victim) = Balance(user_data, victim) - s
              /\ Balance(user_data', thief) + Balance(user_data', victim)
                   = Balance(user_data, thief) + Balance(user_data, victim)
              /\ Balance(user_data', victim) >= 0]_vars

\* A fifth of a victim's 100 has been stolen: the victim holds 80 and the
\* thief 20 more than the 5 they had.
C11_Witness ==
    /\ reply.kind = "steal_success"
    /\ reply.percent = 20
    /\ reply.val = 20
    /\ Balance(user_data, reply.target) = 80
    /\ Balance(user_data, reply.user) = 25

\* C12: a failed theft fines the thief max(floor(20% of their balance), 10):
\* the thief's balance becomes max(0, balance - fine) and the target's balance
\* is unchanged.
C12_FailedTheftFine ==
    [][reply'.kind = "steal_failed"
       => LET thief == reply'.user
              target == reply'.target
              balance == Balance(user_data, thief)
              fifth == (balance * 20) \div 100
              fine == IF fifth > 10 THEN fifth ELSE 10
          IN  /\ reply'.val = fine
              /\ Balance(user_data', thief)
                   = (IF balance - fine > 0 THEN balance - fine ELSE 0)
              /\ Balance(user_data', target) = Balance(user_data, target)]_vars

\* A thief holding 5 has been caught and fined 10: their balance stops at 0
\* and the target still holds what they held.
C12_Witness ==
    /\ reply.kind = "steal_failed"
    /\ reply.val = 10
    /\ Balance(user_data, reply.user) = 0
    /\ Balance(user_data, reply.target) >= 50

\* C13: for one hour (two half hours) after a theft attempt that succeeded or
\* failed, every steal of the same thief against a member is rejected with a
\* wait time and changes no balance, no timestamp and no entry of the account
\* map; a steal against a target holding less than 50 is rejected without
\* changing any balance.
TheftKinds == {"steal_wait", "steal_poor", "steal_success", "steal_failed"}

OnStealCooldown(thief) ==
    /\ Has(user_data, thief)
    /\ Has(user_data[thief], "last_steal")
    /\ now < user_data[thief]["last_steal"] + 2

PoorTargetRejected ==
    Balance(user_data, reply'.target) < 50
        => /\ reply'.kind \in {"steal_wait", "steal_poor"}
           /\ \A x \in Targets : Balance(user_data', x) = Balance(user_data, x)

C13_CooldownNoMutation ==
    [][reply'.kind \in TheftKinds
       => /\ OnStealCooldown(reply'.user)
               => /\ reply'.kind = "steal_wait"
                  /\ reply'.val > 0
                  /\ user_data' = user_data
          /\ PoorTargetRejected]_vars

\* C13, but for the account a rejected steal creates: the same, where the
\* only change of the account map is that a target with no account gets one
\* with the default values.
C13_CooldownRejects ==
    [][reply'.kind \in TheftKinds
       => /\ OnStealCooldown(reply'.user)
               => /\ reply'.kind = "steal_wait"
                  /\ reply'.val > 0
                  /\ \A x \in DOMAIN user_data : user_data'[x] = user_data[x]
                  /\ DOMAIN user_data' = DOMAIN user_data \cup {reply'.target}
                  /\ ~Has(user_data, reply'.target)
                        => user_data'[reply'.target] = NewAccount
          /\ PoorTargetRejected]_vars

\* A thief who stole or was fined half an hour ago has been told to wait, by
\* a steal against a member who had an account.
C13_Witness ==
    /\ reply.kind = "steal_wait"
    /\ reply.val = 1
    /\ Has(user_data[reply.user], "last_steal")
    /\ now = user_data[reply.user]["last_steal"] + 1
    /\ Balance(user_data, reply.target) >= 50

\* ---------------------------------------------------------- fishing alone
NextFish ==
    \/ \E u \in Users, d \in FishDraws :
          fish(u, d[1], d[2]) /\ Bounded(MaxFishWaifame)'
    \/ Tick

SpecFish == Init /\ [][NextFish]_vars

\* C14: for 30 minutes (one half hour) after a catch, every fish of the same
\* account is rejected with the remaining wait and changes nothing; from 30
\* minutes on a fish is accepted, adds to the balance a value inside the range
\* of the pool entry drawn, adds 1 to fish_caught and restarts the cooldown.
HasFished(u) == Has(user_data, u) /\ Has(user_data[u], "last_fish")

C14_FishCooldown ==
    [][(reply'.kind \in {"fish_wait", "fish"} /\ HasFished(reply'.user))
       => LET u == reply'.user
              last == user_data[u]["last_fish"]
              gain == Balance(user_data', u) - Balance(user_data, u)
          IN  IF now < last + 1
              THEN /\ reply'.kind = "fish_wait"
                   /\ reply'.val = last + 1 - now
                   /\ user_data' = user_data
              ELSE /\ reply'.kind = "fish"
                   /\ gain >= fish_pool[reply'.caught].min_value
                   /\ gain <= fish_pool[reply'.caught].max_value
                   /\ reply'.val = gain
                   /\ user_data'[u]["fish_caught"] = user_data[u]["fish_caught"] + 1
                   /\ user_data'[u]["last_fish"] = now
                   /\ \A x \in DOMAIN user_data : x # u => user_data'[x] = user_data[x]]_vars

\* A second catch has been made, half an hour or more after the first.
C14_Witness ==
    /\ reply.kind = "fish"
    /\ user_data[reply.user]["fish_caught"] = 2
    /\ user_data[reply.user]["last_fish"] = now
    /\ now > TicksPerDay

\* ------------------------------------------------------ daily claims alone
NextDaily ==
    \/ \E u \in Users, base \in DailyDraws : daily(u, base)
    \/ DayPasses(MaxStreakDays)

SpecDaily == Init /\ [][NextDaily]_vars

\* C15: at most one daily claim per account and calendar date: an accepted
\* claim records the date, and a claim on the date recorded is rejected and
\* leaves balance, streak and date of the account as they were.
LastDaily(ud, u) == IF Has(ud, u) THEN Get(ud[u], "last_daily", NoDate) ELSE NoDate

C15_OneDailyPerDate ==
    [][reply'.kind \in {"daily", "daily_already"}
       => LET u == reply'.user
              date == now \div TicksPerDay
          IN  IF LastDaily(user_data, u) = date
              THEN /\ reply'.kind = "daily_already"
                   /\ user_data' = user_data
              ELSE /\ reply'.kind = "daily"
                   /\ LastDaily(user_data', u) = date]_vars

\* A second claim on the date of the first has been rejected, by an account
\* holding the reward of the first.
C15_Witness ==
    /\ reply.kind = "daily_already"
    /\ LastDaily(user_data, reply.user) = now \div TicksPerDay
    /\ Balance(user_data, reply.user) > 0

\* C16: an accepted daily claim makes the streak the previous streak + 1 if
\* the previous claim was made the day before and 1 otherwise, and pays the
\* reward drawn plus a bonus of min(10 * new streak, 100).
C16_DailyStreak ==
    [][reply'.kind = "daily"
       => LET u == reply'.user
              date == now \div TicksPerDay
              previousStreak == IF Has(user_data, u)
                                THEN Get(user_data[u], "daily_streak", 0)
                                ELSE 0
              newStreak == IF LastDaily(user_data, u) = date - 1
                           THEN previousStreak + 1
                           ELSE 1
              bonus == IF 10 * newStreak < 100 THEN 10 * newStreak ELSE 100
          IN  /\ user_data'[u]["daily_streak"] = newStreak
              /\ reply'.streak = newStreak
              /\ reply'.bonus = bonus
              /\ newStreak >= 10 => reply'.bonus = 100
              /\ Balance(user_data', u) = Balance(user_data, u) + reply'.base + bonus]_vars

\* An eleventh claim in a row has been paid the bonus of 100 that the tenth
\* was paid.
C16_Witness ==
    /\ reply.kind = "daily"
    /\ reply.streak = 11
    /\ reply.bonus = 100
    /\ user_data[reply.user]["daily_streak"] = 11

\* ------------------------------------------------------- hand values alone
\* The hands of 2 to MaxHandSize cards of one deck, in every order: the k-th
\* card of a value has suit k.
HandOf(values) ==
    [i \in 1..Len(values) |->
        <<values[i], 1 + Cardinality({j \in 1..(i - 1) : values[j] = values[i]})>>]

Hands ==
    {HandOf(values) : values \in
        {v \in UNION {[1..k -> 1..NumValues] : k \in 2..MaxHandSize} :
            \A x \in 1..NumValues :
                Cardinality({j \in 1..Len(v) : v[j] = x}) <= NumSuits}}

\* A hand is valued and shown: player_val = hand_value(...), in the embed.
show_hand(hand) ==
    /\ reply' = [kind |-> "hand_value", user |-> None, val |-> hand_value(hand),
                 hand |-> hand]
    /\ UNCHANGED <<user_data, history, video_history, blackjack_games, imageViews,
                   videoViews, bjViews, modals, now, quizViews, suspended, favViews, persistence>>

\* One hand is valued in a run.
NextHands == reply = NoReply /\ \E hand \in Hands : show_hand(hand)

SpecHands == Init /\ [][NextHands]_vars

\* C17: the value of a hand is the largest total of at most 21 that counting
\* each ace as 1 or 11, number cards at face value and J, Q, K as 10 can give,
\* or the total with every ace as 1 if no such total is at most 21.
RECURSIVE LowTotal(_, _)
LowTotal(hand, n) ==
    IF n = 0 THEN 0
    ELSE LET rank == hand[n][1]
         IN  (IF rank > 10 THEN 10 ELSE rank) + LowTotal(hand, n - 1)

ReferenceValue(hand) ==
    LET low == LowTotal(hand, Len(hand))
        aces == Cardinality({i \in 1..Len(hand) : hand[i][1] = 1})
        totals == {low + 10 * k : k \in 0..aces}
        fitting == {t \in totals : t <= 21}
    IN  IF fitting = {} THEN low
        ELSE CHOOSE t \in fitting : \A other \in fitting : other <= t

C17_HandValue ==
    reply.kind = "hand_value" => reply.val = ReferenceValue(reply.hand)

\* Three aces and two nines have been valued 21: one ace at 11, two at 1.
C17_Witness ==
    /\ reply.kind = "hand_value"
    /\ Cardinality({i \in 1..Len(reply.hand) : reply.hand[i][1] = 1}) = 3
    /\ Len(reply.hand) = 5
    /\ reply.val = 21

\* -------------------------------------------------- blackjack rounds alone
\* The wager tried: an odd one, which 2.5 times makes a half.
RoundWagers == {MinMise + 1}

\* Every user holds what a first daily claim of 50 left them.
InitRounds ==
    /\ user_data = [u \in Users |->
          Put(Put(Put(NewAccount, "waifame", 60), "last_daily", 1), "daily_streak", 1)]
    /\ history = EmptyDict
    /\ video_history = EmptyDict
    /\ blackjack_games = EmptyDict
    /\ imageViews = <<>>
    /\ videoViews = <<>>
    /\ bjViews = <<>>
    /\ modals = {}
    /\ now = TicksPerDay
    /\ reply = NoReply
    /\ quizViews = <<>>
    /\ suspended = <<>>
    /\ favViews = <<>>
    /\ db = Upsert(EmptyDict, user_data)
    /\ json_file = NoFile
    /\ db_up = TRUE

NextRounds ==
    \/ \E u \in Users, mise \in RoundWagers, k \in 1..NumRoundShuffles :
          blackjack(u, mise, k) /\ Bounded(MaxRoundWaifame)'
    \/ \E v \in DOMAIN bjViews, presser \in Users : hit(v, presser)
    \/ \E v \in DOMAIN bjViews, presser \in Users :
          stand(v, presser) /\ Bounded(MaxRoundWaifame)'
    \/ \E v \in DOMAIN bjViews : bj_timeout(v)

SpecRounds == InitRounds /\ [][NextRounds]_vars

\* C18: a blackjack command that deals the player two cards totalling 21 is
\* settled at once: the balance changes by floor(2.5 * wager) - wager, no round
\* of that user remains and no hit/stand view is created.
C18_NaturalSettledAtOnce ==
    [][reply'.kind = "blackjack_natural"
       => LET u == reply'.user
              w == reply'.mise
          IN  /\ Balance(user_data', u) = Balance(user_data, u) + ((5 * w) \div 2) - w
              /\ ~Has(blackjack_games', u)
              /\ bjViews' = bjViews]_vars

\* A natural 21 on a wager of 11 has paid 27 - 11 = 16.
C18_Witness ==
    /\ reply.kind = "blackjack_natural"
    /\ reply.mise = 11
    /\ reply.val = 27
    /\ Balance(user_data, reply.user) = 76

\* C19: a stand that reaches the round makes the dealer draw from the top of
\* the deck until the dealer's total is 17 or more, then settles: the wager is
\* won if the dealer is over 21 or the player's total is higher, lost if it is
\* lower, and the balance is unchanged on equal totals; the round is closed,
\* and a hit or stand of a user who has no round changes nothing.
StandKinds == {"blackjack_won", "blackjack_lost", "blackjack_push"}

RoundButtonKinds ==
    StandKinds \cup {"blackjack_hit", "blackjack_bust", "blackjack_over",
                     "blackjack_not_yours"}

\* hand continues start with the cards drawn one by one from the top of deck,
\* stopping at the first total of 17 or more.
DrawnTo17(start, deck, hand) ==
    /\ Len(hand) >= Len(start)
    /\ \A i \in 1..Len(start) : hand[i] = start[i]
    /\ \A i \in (Len(start) + 1)..Len(hand) :
          hand[i] = deck[Len(deck) + 1 - (i - Len(start))]
    /\ \A n \in Len(start)..(Len(hand) - 1) :
          ReferenceValue(SubSeq(hand, 1, n)) < 17
    /\ ReferenceValue(hand) >= 17

Settled(u, before, after, wager, playerTotal, dealerTotal, kind) ==
    IF dealerTotal > 21 \/ playerTotal > dealerTotal
    THEN kind = "blackjack_won" /\ after = before + wager
    ELSE IF playerTotal < dealerTotal
    THEN kind = "blackjack_lost" /\ after = before - wager
    ELSE kind = "blackjack_push" /\ after = before

C19_StandSettles ==
    [][/\ reply'.kind \in StandKinds
          => LET u == bjViews[reply'.view].user_id
                 game == blackjack_games[u]
             IN  /\ DrawnTo17(game.dealer, game.deck, reply'.dealer)
                 /\ Settled(u, Balance(user_data, u), Balance(user_data', u),
                            game.mise, ReferenceValue(game.player),
                            ReferenceValue(reply'.dealer), reply'.kind)
                 /\ ~Has(blackjack_games', u)
                 /\ ~Clickable(bjViews'[reply'.view])
                 /\ \A x \in DOMAIN user_data : x # u => user_data'[x] = user_data[x]
       /\ (/\ reply'.kind \in RoundButtonKinds
           /\ ~Has(blackjack_games, bjViews[reply'.view].user_id))
          => /\ reply'.kind \in {"blackjack_over", "blackjack_not_yours"}
             /\ user_data' = user_data
             /\ blackjack_games' = blackjack_games
             /\ bjViews' = bjViews]_vars

\* A stand has been won against a dealer who drew to 17 or more without going
\* over 21, and has paid the wager of 11.
C19_Witness ==
    /\ reply.kind = "blackjack_won"
    /\ Len(reply.dealer) > 2
    /\ ReferenceValue(reply.dealer) <= 21
    /\ Balance(user_data, reply.user) = 60 + 11
    /\ ~Has(blackjack_games, reply.user)

\* C20: a hit that reaches the round moves the top card of the deck, and no
\* other, to the player's hand; if the hand is then over 21 the wager is lost
\* and the round closed, and a later hit or stand of that user is refused;
\* otherwise the round stays open and no balance changes.
C20_HitDrawsOne ==
    [][/\ reply'.kind \in {"blackjack_hit", "blackjack_bust"}
          => LET u == bjViews[reply'.view].user_id
                 game == blackjack_games[u]
                 hand == game.player \o <<game.deck[Len(game.deck)]>>
                 total == ReferenceValue(hand)
             IN  /\ reply'.val = total
                 /\ IF total > 21
                    THEN /\ reply'.kind = "blackjack_bust"
                         /\ Balance(user_data', u) = Balance(user_data, u) - game.mise
                         /\ ~Has(blackjack_games', u)
                         /\ ~Clickable(bjViews'[reply'.view])
                    ELSE /\ reply'.kind = "blackjack_hit"
                         /\ user_data' = user_data
                         /\ Has(blackjack_games', u)
                         /\ blackjack_games'[u].active
                         /\ blackjack_games'[u].player = hand
                         /\ blackjack_games'[u].deck
                              = SubSeq(game.deck, 1, Len(game.deck) - 1)
                         /\ blackjack_games'[u].dealer = game.dealer
                         /\ blackjack_games'[u].mise = game.mise
                         /\ bjViews' = bjViews
       /\ (/\ reply'.kind \in RoundButtonKinds
           /\ reply'.user = bjViews[reply'.view].user_id
           /\ ~Has(blackjack_games, reply'.user))
          => /\ reply'.kind = "blackjack_over"
             /\ UNCHANGED <<user_data, blackjack_games, bjViews>>]_vars

\* A hit has taken the hand over 21: the wager of 11 is lost and the round
\* gone.
C20_Witness ==
    /\ reply.kind = "blackjack_bust"
    /\ reply.val > 21
    /\ Balance(user_data, reply.user) = 60 - 11
    /\ ~Has(blackjack_games, reply.user)

\* -------------------------------------------------------------------- quiz
MaxQuizViews == 1

\* The decoy names of ?quiz, the first five of its list.
all_decoys == <<"Hatsune Miku", "Sakura Haruno", "Rem", "Emilia", "Zero Two">>

\* tag_string_character.split() of the posts a quiz fetch finds: none, one or
\* two character tags.
QuizCharTags == {<<>>, <<"rem">>, <<"hatsune_miku", "rem">>, <<"REM">>}

\* What get_danbooru_image returns to ?quiz: no post, or a post with its
\* character tags.
NoQuizPost == [found |-> FALSE, char_tags |-> <<>>]

QuizFetches == {NoQuizPost} \cup {[found |-> TRUE, char_tags |-> t] : t \in QuizCharTags}

\* tag.replace("_", " ").title()
Title(tag) ==
    CASE tag = "rem" -> "Rem"
      [] tag = "REM" -> "Rem"
      [] tag = "hatsune_miku" -> "Hatsune Miku"

\* str.lower() of a button label.
lower(label) ==
    CASE label = "Rem" -> "rem"
      [] label = "Hatsune Miku" -> "hatsune miku"
      [] label = "Sakura Haruno" -> "sakura haruno"
      [] label = "Emilia" -> "emilia"
      [] label = "Zero Two" -> "zero two"

\* [d for d in all_decoys if d.lower() != correct_answer.lower()]
RECURSIVE available_decoys(_, _)
available_decoys(decoys, correct_answer) ==
    IF decoys = <<>> THEN <<>>
    ELSE LET rest == available_decoys(Tail(decoys), correct_answer)
         IN  IF lower(Head(decoys)) # lower(correct_answer)
             THEN <<Head(decoys)>> \o rest
             ELSE rest

\* The list without its element at index i.
Without(list, i) == SubSeq(list, 1, i - 1) \o SubSeq(list, i + 1, Len(list))

\* The list with x at index i.
Inserted(list, i, x) == SubSeq(list, 1, i - 1) \o <<x>> \o SubSeq(list, i, Len(list))

\* A button of a QuizView: its label, the answer its callback closes over,
\* and what the loop of the callback sets.
QuizButton(answer) ==
    [label |-> answer, answer |-> answer, disabled |-> FALSE, style |-> "primary"]

\* QuizView.__init__; description and shown are the embed description and the
\* buttons of the message the view is attached to, edit is the embed of an
\* edit_message that is awaited.
QuizView(correct_answer, all_answers, user_id) ==
    LET children == [i \in DOMAIN all_answers |-> QuizButton(all_answers[i])]
    IN  [correct_answer |-> correct_answer, user_id |-> user_id, answered |-> FALSE,
         children |-> children, finished |-> FALSE,
         description |-> "question", shown |-> children, edit |-> "none"]

\* ?quiz: first and second are what the two fetches find, left is the decoy
\* random.sample leaves out (of the four that remain here) and place is
\* where random.shuffle puts the correct answer.
quiz(u, first, second, left, place) ==
    LET char_tags == IF first.char_tags = <<>> /\ second.found
                     THEN second.char_tags ELSE first.char_tags
    IN  /\ IF ~first.found
           THEN /\ reply' = Reply("quiz_none", u, 0)
                /\ UNCHANGED quizViews
           ELSE IF char_tags = <<>>
           THEN /\ reply' = Reply("quiz_no_character", u, 0)
                /\ UNCHANGED quizViews
           ELSE LET correct_answer == Title(char_tags[1])
                    available == available_decoys(all_decoys, correct_answer)
                    wrong_answers == Without(available, left)
                    all_answers == Inserted(wrong_answers, place, correct_answer)
                IN  /\ left \in DOMAIN available
                    /\ place \in 1..(Len(wrong_answers) + 1)
                    /\ quizViews' = Append(quizViews,
                                           QuizView(correct_answer, all_answers, u))
                    /\ reply' = Reply("quiz", u, Len(quizViews) + 1)
        /\ UNCHANGED <<user_data, history, video_history, blackjack_games, imageViews,
                       videoViews, bjViews, modals, now, suspended, favViews, persistence>>

\* A guard that lets every answer in.
already_answered_never(view) == FALSE

\* "if self.answered"
already_answered(view) == view.answered

\* The loop over self.children of the callback of answer.
Revealed(children, correct_answer, answer, is_correct) ==
    [i \in DOMAIN children |->
        [children[i] EXCEPT
            !.disabled = TRUE,
            !.style = IF lower(children[i].label) = lower(correct_answer) THEN "green"
                      ELSE IF children[i].label = answer /\ ~is_correct THEN "red"
                      ELSE @]]

QuizReply(kind, user, v, answer, is_correct) ==
    [kind |-> kind, user |-> user, val |-> v, answer |-> answer, correct |-> is_correct]

\* The callback of button i, up to its await: the message still shows enabled
\* buttons and the view still listens.
quiz_callback(v, presser, i) ==
    LET view == quizViews[v]
        answer == view.children[i].answer
        is_correct == lower(answer) = lower(view.correct_answer)
    IN  /\ ~view.finished
        /\ ~view.shown[i].disabled
        /\ IF already_answered(view)
           THEN /\ reply' = QuizReply("quiz_already", presser, v, answer, FALSE)
                /\ UNCHANGED quizViews
           ELSE /\ quizViews' = [quizViews EXCEPT ![v] =
                       [view EXCEPT
                           !.answered = TRUE,
                           !.children = Revealed(view.children, view.correct_answer,
                                                 answer, is_correct),
                           !.edit = IF is_correct THEN "correct" ELSE "wrong"]]
                /\ reply' = QuizReply("quiz_answer", presser, v, answer, is_correct)
        /\ UNCHANGED <<user_data, history, video_history, blackjack_games, imageViews,
                       videoViews, bjViews, modals, now, suspended, favViews, persistence>>

\* "await interaction.response.edit_message(embed=embed, view=self)" returns:
\* the message shows the result and the buttons as the view holds them.
quiz_edited(v) ==
    LET view == quizViews[v]
    IN  /\ view.edit # "none"
        /\ quizViews' = [quizViews EXCEPT ![v] =
               [view EXCEPT !.description = view.edit, !.shown = view.children,
                            !.edit = "none"]]
        /\ reply' = Reply("quiz_result", view.user_id, v)
        /\ UNCHANGED <<user_data, history, video_history, blackjack_games, imageViews,
                       videoViews, bjViews, modals, now, suspended, favViews, persistence>>

\* QuizView(timeout=30) defines no on_timeout: the view stops listening and
\* neither the view nor its message changes.
quiz_timeout(v) ==
    /\ ~quizViews[v].finished
    /\ quizViews' = [quizViews EXCEPT ![v].finished = TRUE]
    /\ reply' = NoReply
    /\ UNCHANGED <<user_data, history, video_history, blackjack_games, imageViews,
                   videoViews, bjViews, modals, now, suspended, favViews, persistence>>

\* Quiz rounds: answers from every user, the edit of the message and the
\* timeout in every order.
NextQuiz ==
    \/ \E u \in Users, first \in QuizFetches, second \in QuizFetches,
          left \in 1..Len(all_decoys), place \in 1..Len(all_decoys) :
          /\ Len(quizViews) < MaxQuizViews
          /\ quiz(u, first, second, left, place)
    \/ \E v \in DOMAIN quizViews, presser \in Users :
          \E i \in DOMAIN quizViews[v].children : quiz_callback(v, presser, i)
    \/ \E v \in DOMAIN quizViews : quiz_edited(v)
    \/ \E v \in DOMAIN quizViews : quiz_timeout(v)

SpecQuiz == Init /\ [][NextQuiz]_vars

\* The result a quiz view has recorded: the one its awaited edit carries, or
\* the one its message shows.
RecordedResult(view) == IF view.edit # "none" THEN view.edit ELSE view.description

\* C21: a quiz round accepts exactly one answer. The step that accepts an
\* answer sets the answered flag and records "correct" exactly when the
\* chosen label is the correct one (the labels of a round never differ in
\* case only); from then on, whoever answers and whether or not the edit of
\* the message has landed, no step accepts an answer for that round and the
\* recorded result and the button styles stay as they are.
C21_OneAnswer ==
    [][\A v \in DOMAIN quizViews :
          LET view == quizViews[v]
              after == quizViews'[v]
          IN  /\ view.answered =>
                    /\ after.answered
                    /\ RecordedResult(after) = RecordedResult(view)
                    /\ after.children = view.children
                    /\ ~(reply'.kind = "quiz_answer" /\ reply'.val = v)
              /\ (~view.answered /\ after.answered) =>
                    /\ reply'.kind = "quiz_answer" /\ reply'.val = v
                    /\ RecordedResult(after) \in {"correct", "wrong"}
                    /\ (RecordedResult(after) = "correct") <=>
                          (reply'.answer = view.correct_answer)
                    /\ \A i \in DOMAIN after.children : after.children[i].disabled]_vars

\* A second user's answer is rejected while the edit of the first answer is
\* still awaited.
C21_Witness ==
    \E v \in DOMAIN quizViews :
       /\ quizViews[v].answered
       /\ quizViews[v].edit = "wrong"
       /\ reply.kind = "quiz_already"
       /\ reply.val = v
       /\ reply.user # quizViews[v].user_id
       /\ reply.answer = quizViews[v].correct_answer

\* C22: a quiz round that timed out without an answer is in the terminal
\* state of an incorrect answer: its message shows the result "wrong" and
\* every option disabled, the correct one revealed in green.
C22_TimeoutReveals ==
    \A v \in DOMAIN quizViews :
       (quizViews[v].finished /\ ~quizViews[v].answered) =>
          /\ quizViews[v].description = "wrong"
          /\ \A i \in DOMAIN quizViews[v].shown :
                /\ quizViews[v].shown[i].disabled
                /\ (quizViews[v].shown[i].label = quizViews[v].correct_answer) =>
                      quizViews[v].shown[i].style = "green"

\* A round timed out with no answer given.
C22_Witness ==
    \E v \in DOMAIN quizViews :
       /\ quizViews[v].finished
       /\ ~quizViews[v].answered
       /\ reply = NoReply

\* ------------------------------------------------------- the durable store
MaxPersistWaifame == 130

\* ?stats: the account is read through get_user_data and shown.
stats(u) ==
    LET ud == get_user_data(user_data, u)
        data == ud[u]
        daily_remaining == IF Get(data, "last_fav_date", NoDate) # get_today_date(now)
                           THEN DailyFavLimit
                           ELSE DailyFavLimit - Get(data, "daily_favs", 0)
    IN  /\ user_data' = ud
        /\ reply' = [kind |-> "stats", user |-> u, val |-> Get(data, "waifame", 0),
                     view_count |-> Get(data, "view_count", 0),
                     fav_count |-> Len(Get(data, "favorites", <<>>)),
                     daily_remaining |-> daily_remaining]
        /\ NoSave
        /\ UNCHANGED <<history, video_history, blackjack_games, imageViews,
                       videoViews, bjViews, modals, now, quizViews, suspended, favViews>>

\* on_ready, which the gateway fires at start and again after a reconnect:
\* load_user_data() into the account map in memory.
on_ready ==
    /\ user_data' = load_user_data(user_data)
    /\ reply' = Reply("ready", None, 0)
    /\ UNCHANGED <<history, video_history, blackjack_games, imageViews,
                   videoViews, bjViews, modals, now, quizViews, suspended, favViews, persistence>>

\* psycopg2.connect starts to raise: get_db_connection() returns None.
db_lost ==
    /\ db_up
    /\ db_up' = FALSE
    /\ reply' = NoReply
    /\ UNCHANGED <<user_data, history, video_history, blackjack_games, imageViews,
                   videoViews, bjViews, modals, now, quizViews, suspended, favViews, db, json_file>>

\* psycopg2.connect succeeds again.
db_found ==
    /\ ~db_up
    /\ db_up' = TRUE
    /\ reply' = NoReply
    /\ UNCHANGED <<user_data, history, video_history, blackjack_games, imageViews,
                   videoViews, bjViews, modals, now, quizViews, suspended, favViews, db, json_file>>

\* One day of one run of the process with DATABASE_URL set: commands that
\* read and change accounts, the ready event, and the database server going
\* away and coming back.
NextPersist ==
    \/ \E u \in Users : stats(u)
    \/ \E u \in Users, base \in DailyDraws :
          daily(u, base) /\ Bounded(MaxPersistWaifame)'
    \/ \E u \in Users : slots(u, 3 * MinMise, <<"cherry", "lemon", "orange">>)
    \/ on_ready
    \/ db_lost
    \/ db_found

SpecPersist == Init /\ [][NextPersist]_vars

\* The columns of the table users.
Columns == {"view_count", "waifame", "daily_favs", "last_fav_date", "favorites"}

\* The store that a flush writes, table when up and file when not, holds the
\* accounts of ud: every one as a row of the table, or all of them as the
\* document of the file.
Stored(ud, table, file, up) ==
    IF up
    THEN \A u \in DOMAIN ud :
            /\ u \in DOMAIN table
            /\ \A k \in Columns : table[u][k] = ud[u][k]
    ELSE file.exists /\ file.data = ud

\* The step changed the account map only by adding accounts that hold the
\* default values.
OnlyCreated ==
    /\ DOMAIN user_data \subseteq DOMAIN user_data'
    /\ \A u \in DOMAIN user_data' :
          IF u \in DOMAIN user_data
          THEN user_data'[u] = user_data[u]
          ELSE user_data'[u] = [favorites |-> <<>>, view_count |-> 0, waifame |-> 0,
                                daily_favs |-> 0, last_fav_date |-> NoDate]

C24_OneBackend == ~(DOMAIN db # {} /\ json_file.exists)

\* A ready event loaded the rows of the table after a flush of a newer
\* balance had gone to the file.
C24_Witness ==
    /\ reply.kind = "ready"
    /\ db_up
    /\ json_file.exists
    /\ \E u \in DOMAIN user_data :
          /\ Has(db, u) /\ Has(json_file.data, u)
          /\ user_data[u].waifame = db[u].waifame
          /\ json_file.data[u].waifame < db[u].waifame

\* C25: a load returns every account as it was saved. At a ready event, an
\* account whose flushed copy in the store being read agrees with the account
\* in memory (its row of the table on every column, or its entry of the file)
\* is in memory after the load exactly as before: daily-claim date, streak,
\* cooldown timestamps and fish count included.
C25_LoadReturnsSaved ==
    [][reply'.kind = "ready" =>
          \A u \in DOMAIN user_data :
             (IF db_up
              THEN Has(db, u) /\ \A k \in Columns : db[u][k] = user_data[u][k]
              ELSE json_file.exists /\ Has(json_file.data, u)
                      /\ json_file.data[u] = user_data[u])
             => (Has(user_data', u) /\ user_data'[u] = user_data[u])]_vars

\* A second daily claim on the same date, made possible by a ready event in
\* between: the streak is 1 again and the balance holds two rewards.
C25_Witness ==
    /\ reply.kind = "daily"
    /\ reply.streak = 1
    /\ get_today_date(now) = 1
    /\ user_data[reply.user].waifame = 2 * (50 + 10)
    /\ user_data[reply.user].last_daily = 1

\* ---------------------------------------------------------------- backfill
\* The records an older DATA_FILE holds for a user: favorites and view_count
\* always, and any of the three fields added since, with values of all kinds.
OldRecords ==
    LET base == {[favorites |-> f, view_count |-> c] :
                    f \in {<<>>, <<fav_post(Post(1))>>}, c \in {0, 3}}
        with(rs, k, vals) == rs \cup {Put(r, k, v) : r \in rs, v \in vals}
    IN  with(with(with(base, "waifame", {0, 7}), "daily_favs", {0, 2}),
             "last_fav_date", {NoDate, 1})

\* The process has loaded DATA_FILE: user 1 is unknown or has an old record.
InitBackfill ==
    /\ user_data \in {EmptyDict} \cup {Put(EmptyDict, 1, r) : r \in OldRecords}
    /\ history = EmptyDict
    /\ video_history = EmptyDict
    /\ blackjack_games = EmptyDict
    /\ imageViews = <<>>
    /\ videoViews = <<>>
    /\ bjViews = <<>>
    /\ modals = {}
    /\ now = TicksPerDay
    /\ reply = NoReply
    /\ quizViews = <<>>
    /\ suspended = <<>>
    /\ favViews = <<>>
    /\ db = EmptyDict
    /\ json_file = Dumped(user_data)
    /\ db_up = FALSE

\* get_user_data, as ?stats calls it.
NextBackfill == \E u \in Users : stats(u)

SpecBackfill == InitBackfill /\ [][NextBackfill]_vars

\* C26: get_user_data on a record that lacks waifame, daily_favs or
\* last_fav_date leaves the record with exactly those keys added, at 0, 0 and
\* the empty date, and every key that was there with its value; on an
\* unknown user it creates the all-zero record. No other account changes.
C26_Backfill ==
    [][reply'.kind = "stats" =>
          LET u == reply'.user
              added == {"waifame", "daily_favs", "last_fav_date"}
          IN  /\ DOMAIN user_data' = DOMAIN user_data \cup {u}
              /\ \A o \in DOMAIN user_data : o # u => user_data'[o] = user_data[o]
              /\ IF u \in DOMAIN user_data
                 THEN /\ DOMAIN user_data'[u] = DOMAIN user_data[u] \cup added
                      /\ \A k \in DOMAIN user_data[u] : user_data'[u][k] = user_data[u][k]
                      /\ \A k \in added \ DOMAIN user_data[u] :
                            user_data'[u][k] = IF k = "last_fav_date" THEN NoDate ELSE 0
                 ELSE user_data'[u] = [favorites |-> <<>>, view_count |-> 0, waifame |-> 0,
                                       daily_favs |-> 0, last_fav_date |-> NoDate]]_vars

\* A record read from the file without waifame and last_fav_date, with two
\* favourites used and three views: both fields filled in, the rest kept.
C26_Witness ==
    /\ reply.kind = "stats"
    /\ reply.user = 1
    /\ Has(json_file.data, 1)
    /\ DOMAIN json_file.data[1] = {"favorites", "view_count", "daily_favs"}
    /\ user_data[1] = [favorites |-> json_file.data[1].favorites, view_count |-> 3,
                       waifame |-> 0, daily_favs |-> 2, last_fav_date |-> NoDate]

\* ------------------------------------------------------- the content fetch
\* A post of the API's answer: its id and its two urls, each by its file
\* extension, "" when the key is missing.
Candidate(id, file_url, large_file_url) ==
    [id |-> id, file_url |-> file_url, large_file_url |-> large_file_url]

\* What requests.get does: it raises (a timeout, no network), or returns a
\* status code and a JSON list of posts.
Response(raised, status_code, data) ==
    [raised |-> raised, status_code |-> status_code, data |-> data]

Responses ==
    {Response(TRUE, 0, <<>>),
     Response(FALSE, 500, <<Candidate(1, "jpg", "")>>),
     Response(FALSE, 200, <<>>),
     Response(FALSE, 200, <<Candidate(1, "", "")>>),
     Response(FALSE, 200, <<Candidate(1, "mp4", "jpg")>>),
     Response(FALSE, 200, <<Candidate(2, "mp4", ""), Candidate(1, "jpg", "")>>),
     Response(FALSE, 200, <<Candidate(2, "", "png")>>)}

ImageExtensions == {"jpg", "jpeg", "png", "gif", "webp"}

\* A loop that returns the first post that has any url.
RECURSIVE FirstUsable_any(_)
FirstUsable_any(data) ==
    IF data = <<>> THEN None
    ELSE LET post == Head(data)
             file_url == IF post.file_url # "" THEN post.file_url ELSE post.large_file_url
         IN  IF file_url # "" THEN post.id ELSE FirstUsable_any(Tail(data))

\* "for post in data": the id of the first post whose file_url, or else
\* large_file_url, ends as an image, None when the loop ends.
RECURSIVE FirstUsable(_)
FirstUsable(data) ==
    IF data = <<>> THEN None
    ELSE LET post == Head(data)
             file_url == IF post.file_url # "" THEN post.file_url ELSE post.large_file_url
         IN  IF file_url # "" /\ file_url \in ImageExtensions
             THEN post.id
             ELSE FirstUsable(Tail(data))

\* get_danbooru_image: one request, None on an exception, on a status other
\* than 200 and on a list without a usable post.
get_danbooru_image(resp) ==
    IF resp.raised THEN None
    ELSE IF resp.status_code = 200 THEN FirstUsable(resp.data)
    ELSE None

\* The image commands and buttons over every answer of the API.
NextFetch ==
    \/ \E u \in Users, g \in Guilds, resp \in Responses :
          next(u, g, SafeTags, get_danbooru_image(resp)) /\ ViewsBounded'
    \/ \E v \in DOMAIN imageViews, presser \in Users, resp \in Responses :
          \/ safe_callback(v, presser, get_danbooru_image(resp)) /\ ViewsBounded'
          \/ ques_callback(v, presser, get_danbooru_image(resp)) /\ ViewsBounded'
          \/ expl_callback(v, presser, get_danbooru_image(resp)) /\ ViewsBounded'
          \/ next_callback(v, presser, get_danbooru_image(resp)) /\ ViewsBounded'
    \/ \E v \in DOMAIN imageViews, presser \in Users :
          search_callback(v, presser) /\ ViewsBounded'
    \/ \E m \in modals, many \in BOOLEAN, resp \in Responses :
          on_submit(m, many, get_danbooru_image(resp)) /\ ViewsBounded'
    \/ \E m \in modals, tag \in {Suggestion, Query}, resp \in Responses :
          select_callback(m, tag, get_danbooru_image(resp)) /\ ViewsBounded'

SpecFetch == Init /\ [][NextFetch]_vars

\* The answer of the API holds no post to show: the request raised, the
\* status is not 200, or no post of the list has an image url.
Unusable(resp) ==
    \/ resp.raised
    \/ resp.status_code # 200
    \/ \A i \in DOMAIN resp.data :
          ~ \/ resp.data[i].file_url \in {"jpg", "jpeg", "png", "gif", "webp"}
            \/ /\ resp.data[i].file_url = ""
               /\ resp.data[i].large_file_url \in {"jpg", "jpeg", "png", "gif", "webp"}

\* The step left the histories, the post and the embed of every image view
\* and the whole account map as they were.
NothingShown ==
    /\ history' = history
    /\ user_data' = user_data
    /\ DOMAIN imageViews' = DOMAIN imageViews
    /\ \A v \in DOMAIN imageViews :
          /\ imageViews'[v].post = imageViews[v].post
          /\ imageViews'[v].embed = imageViews[v].embed

\* C27: a step of ?next, of a rating or Suivant button, or of the search form
\* or the suggestion list, taken with an answer of the API that holds no
\* usable post, answers with the no-result message of that handler (or the
\* rejection of a foreign presser) and leaves the history, the post of every
\* session and every account unchanged.
C27_FailedFetchNoResult ==
    [][\A resp \in Responses :
          Unusable(resp) =>
             LET f == get_danbooru_image(resp)
             IN  /\ \A u \in Users, g \in Guilds :
                       next(u, g, SafeTags, f) =>
                          (reply'.kind = "next_none" /\ NothingShown)
                 /\ \A v \in DOMAIN imageViews, presser \in Users :
                       (\/ safe_callback(v, presser, f)
                        \/ ques_callback(v, presser, f)
                        \/ expl_callback(v, presser, f)
                        \/ next_callback(v, presser, f)) =>
                          (reply'.kind \in {"image_error", "not_yours"} /\ NothingShown)
                 /\ \A m \in modals :
                       (\/ on_submit(m, FALSE, f)
                        \/ \E tag \in {Suggestion, Query} : select_callback(m, tag, f)) =>
                          (reply'.kind = "search_none" /\ NothingShown)]_vars

\* A press of Suivant by the owner of a session that has shown a post was
\* answered with the error message.
C27_Witness ==
    /\ reply.kind = "image_error"
    /\ imageViews[reply.val].user_id = reply.user
    /\ Has(history, 1)
    /\ Len(history[1]) = 1
    /\ imageViews[reply.val].embed = history[1][1].id
    /\ user_data[reply.user].view_count = 1

\* Plain views by users of whom one may hold a balance.
SpecViews == InitSlots /\ [][NextFetch]_vars

\* The account of u before the step, the default account if there is none.
Before(u) ==
    IF u \in DOMAIN user_data THEN user_data[u]
    ELSE [favorites |-> <<>>, view_count |-> 0, waifame |-> 0,
          daily_favs |-> 0, last_fav_date |-> NoDate]

C29_FavouriteEarns ==
    [][reply'.kind = "fav_added" =>
          Get(user_data'[reply'.user], "waifame", 0) >=
             (IF Has(user_data, reply'.user)
              THEN Get(user_data[reply'.user], "waifame", 0) ELSE 0) + 1]_vars

\* A favourite was added and its owner holds nothing.
C29_Witness ==
    /\ reply.kind = "fav_added"
    /\ HasFav(user_data[reply.user].favorites, reply.post)
    /\ user_data[reply.user].daily_favs = 1
    /\ user_data[reply.user].waifame = 0

\* C30: the post shown on the message of every image session is the post of
\* the session, the one the heart button stores.
C30_RenderedIsCurrent ==
    \A v \in DOMAIN imageViews : imageViews[v].embed = imageViews[v].post.id

\* The owner's press of a button found a post: it is in the history, it is
\* the post of the session and the view is counted, and the message still
\* shows the post before it.
C30_Witness ==
    /\ reply.kind = "TypeError"
    /\ imageViews[reply.val].user_id = reply.user
    /\ history[1][Len(history[1])] = imageViews[reply.val].post
    /\ imageViews[reply.val].embed # imageViews[reply.val].post.id
    /\ user_data[reply.user].view_count = 2

\* C31: every step that puts a post in the video history or takes one back
\* (the vnext command, advance, setFilter, rewind) ends with a video
\* session on the post now last in the history of its guild, whose
\* companion message carries that post.
C31_NavigationReplacesCompanion ==
    [][\A g \in Guilds :
          (Has(video_history', g) /\
           (~Has(video_history, g) \/ video_history'[g] # video_history[g])) =>
              \E v \in DOMAIN videoViews' :
                  /\ videoViews'[v].guild_id = g
                  /\ videoViews'[v].post = video_history'[g][Len(video_history'[g])]
                  /\ videoViews'[v].video_message = videoViews'[v].post.id]_vars

\* The owner of a video session advanced it: the post found is the post of
\* the session and the last of the history, the view is counted, and the
\* companion message still carries the post before it.
C31_Witness ==
    /\ reply.kind = "video_TypeError"
    /\ videoViews[reply.val].user_id = reply.user
    /\ video_history[1][Len(video_history[1])] = videoViews[reply.val].post
    /\ videoViews[reply.val].video_message # videoViews[reply.val].post.id
    /\ user_data[reply.user].view_count = 1

\* ------------------------------------------------------------ the event loop
\* bot.run(TOKEN) (line 1917) runs every handler as a coroutine on one
\* thread: a handler gives the thread back only at an await. requests.get
\* (line 291) is not awaited: the handler that calls it keeps the thread
\* until the answer or the timeout of 10 seconds.
RequestsGet(handler, view, user_id, guild_id, tags) ==
    [kind |-> "requests_get", handler |-> handler, view |-> view,
     user_id |-> user_id, guild_id |-> guild_id, tags |-> tags]

\* The thread of the event loop is inside a call that does not await.
Blocked == \E i \in DOMAIN suspended : suspended[i].kind = "requests_get"

\* The event loop takes the next message or interaction.
EventLoopFree == ~Blocked

Removed(seq, i) == SubSeq(seq, 1, i - 1) \o SubSeq(seq, i + 1, Len(seq))

\* ?next up to requests.get inside get_danbooru_image.
next_called(u, g, tags) ==
    /\ suspended' = Append(suspended, RequestsGet("next", None, u, g, tags))
    /\ reply' = NoReply
    /\ UNCHANGED <<user_data, history, video_history, blackjack_games, imageViews,
                   videoViews, bjViews, modals, now, quizViews, favViews, persistence>>

\* requests.get answers, fails or times out, and ?next runs to its end.
next_returned(i, f) ==
    LET call == suspended[i]
    IN  /\ call.kind = "requests_get"
        /\ call.handler = "next"
        /\ next_fetched(call.user_id, call.guild_id, call.tags, f)
        /\ suspended' = Removed(suspended, i)

\* next_callback up to requests.get: check_user, update_image, the deferral
\* of the response and the call of get_danbooru_image.
next_callback_called(v, presser) ==
    /\ IF check_user(imageViews[v], presser)
       THEN /\ suspended' = Append(suspended,
                   RequestsGet("next_callback", v, presser, imageViews[v].guild_id,
                               imageViews[v].current_tags))
            /\ reply' = NoReply
            /\ NoSave
            /\ UNCHANGED <<user_data, history, video_history, imageViews, videoViews, modals>>
       ELSE NotYours(presser, v) /\ UNCHANGED suspended
    /\ UNCHANGED <<blackjack_games, bjViews, now, quizViews, favViews>>

\* requests.get answers, fails or times out, and update_image runs to its end.
next_callback_returned(i, f) ==
    LET call == suspended[i]
    IN  /\ call.kind = "requests_get"
        /\ call.handler = "next_callback"
        /\ update_image(call.view, call.user_id, call.tags, f)
        /\ suspended' = Removed(suspended, i)
        /\ UNCHANGED <<video_history, blackjack_games, videoViews, bjViews, modals,
                       now, quizViews, favViews>>

\* The handlers the event loop starts when its thread is free.
LoopStats(u) == EventLoopFree /\ stats(u)

LoopDaily(u, base) == EventLoopFree /\ daily(u, base)

LoopNext(u, g) == EventLoopFree /\ next_called(u, g, SafeTags)

LoopNextCallback(v, presser) == EventLoopFree /\ next_callback_called(v, presser)

MaxLoopViews == 2

LoopBounded ==
    /\ HistoryLen(history) <= MaxHistory
    /\ Len(imageViews) <= MaxLoopViews
    /\ \A u \in DOMAIN user_data : Get(user_data[u], "view_count", 0) <= MaxViewCount

\* Messages and button presses of two users around the calls of the content
\* API: ?next and Suivant stopped inside requests.get, ?stats and ?daily.
NextLoop ==
    \/ \E u \in Users, g \in Guilds : LoopNext(u, g)
    \/ \E i \in DOMAIN suspended, f \in Fetches : next_returned(i, f) /\ LoopBounded'
    \/ \E v \in DOMAIN imageViews, presser \in Users : LoopNextCallback(v, presser)
    \/ \E i \in DOMAIN suspended, f \in Fetches : next_callback_returned(i, f) /\ LoopBounded'
    \/ \E u \in Users : LoopStats(u)
    \/ \E u \in Users : LoopDaily(u, 50)

SpecLoop == Init /\ [][NextLoop]_vars

\* C32: while the fetch of one handler is in flight, the handler of a
\* message of another user can start and complete: ?stats of every other
\* user can run.
C32_OthersRunDuringCall ==
    \A i \in DOMAIN suspended :
        suspended[i].kind = "requests_get" =>
            \A u \in Users \ {suspended[i].user_id} : ENABLED LoopStats(u)

\* The Suivant button of user 1 is inside requests.get and user 2, served
\* before, has an account.
C32_Witness ==
    /\ suspended # <<>>
    /\ suspended[1].kind = "requests_get"
    /\ suspended[1].handler = "next_callback"
    /\ suspended[1].user_id = 1
    /\ Has(user_data, 2)
    /\ ~(ENABLED LoopStats(2))

\* ----------------------------------------------------------- admin commands
GiveAmounts == {-5, 0, 5, 10}

MaxAdminWaifame == 70

\* ?give and ?reset from both users, with ?stats and ?daily to open and fund
\* accounts.
NextAdmin ==
    \/ \E u \in Users, target \in Users \cup {None}, amount \in GiveAmounts :
          give(u, target, amount) /\ Bounded(MaxAdminWaifame)'
    \/ \E u \in Users, target \in Users \cup {None} : reset(u, target)
    \/ \E u \in Users : stats(u)
    \/ \E u \in Users : daily(u, 50) /\ Bounded(MaxAdminWaifame)'

SpecAdmin == Init /\ [][NextAdmin]_vars

\* C33: ?give and ?reset of a user who is not the admin change no account;
\* the admin's ?reset puts the record of ten zero or empty fields in the
\* place of the record of a user who has one and adds no record for a user
\* who has none; the admin's ?give does nothing unless it names a target
\* and an amount above zero, and then it raises the balance of the target
\* by that amount and changes no other account.
C33_AdminCommands ==
    [][\A target \in Users \cup {None} :
          /\ \A u \in Users \ {1}, amount \in GiveAmounts :
                (give(u, target, amount) \/ reset(u, target)) => user_data' = user_data
          /\ reset(1, target) =>
                LET uid == IF target = None THEN 1 ELSE target
                IN  IF uid \in DOMAIN user_data
                    THEN user_data' = [user_data EXCEPT ![uid] =
                            [favorites |-> <<>>, view_count |-> 0, waifame |-> 0,
                             daily_favs |-> 0, last_fav_date |-> -1,
                             daily_streak |-> 0, last_daily |-> -1,
                             fish_caught |-> 0, last_fish |-> 0, last_steal |-> 0]]
                    ELSE user_data' = user_data
          /\ \A amount \in GiveAmounts :
                give(1, target, amount) =>
                    IF target # None /\ amount > 0
                    THEN /\ DOMAIN user_data' = DOMAIN user_data \cup {target}
                         /\ user_data'[target].waifame =
                               (IF target \in DOMAIN user_data
                                THEN user_data[target].waifame ELSE 0) + amount
                         /\ \A x \in DOMAIN user_data \ {target} :
                               user_data'[x] = user_data[x]
                    ELSE user_data' = user_data]_vars

\* The admin gave themself 5 and user 2, who had claimed a daily reward,
\* 10 more, and then reset user 2: the record of user 2 is the ten zero
\* fields and the admin still holds 5.
C33_Witness ==
    /\ reply.kind = "reset"
    /\ reply.val = 2
    /\ {1, 2} \subseteq DOMAIN user_data
    /\ 2 \in DOMAIN db
    /\ user_data[2].waifame = 0
    /\ DOMAIN user_data[2] = {"favorites", "view_count", "waifame", "daily_favs",
                              "last_fav_date", "daily_streak", "last_daily",
                              "fish_caught", "last_fish", "last_steal"}
    /\ user_data[2].last_daily = -1
    /\ user_data[1].waifame = 5
    /\ db[2].waifame = 0

\* ------------------------------------------- rounds settled across an await
MaxSuspended == 2

AwaitBounded ==
    /\ Bounded(MaxRoundWaifame)
    /\ Len(suspended) <= MaxSuspended

\* Rounds whose settling handlers stop at the edit of their message while
\* the commands and buttons of the same users go on.
NextAwait ==
    \/ \E u \in Users, mise \in RoundWagers, k \in 1..NumRoundShuffles :
          blackjack(u, mise, k) /\ AwaitBounded'
    \/ \E v \in DOMAIN bjViews, presser \in Users : hit_awaiting(v, presser) /\ AwaitBounded'
    \/ \E v \in DOMAIN bjViews, presser \in Users : stand_awaiting(v, presser) /\ AwaitBounded'
    \/ \E i \in DOMAIN suspended : edit_message_returned(i)
    \/ \E v \in DOMAIN bjViews : bj_timeout(v)

SpecAwait == InitRounds /\ [][NextAwait]_vars

\* C34: the del that ends a hit-bust or stand handler finds the record of
\* the round it settled: the key is there and its round is not active.
C34_SettleRemovesOnlyItsRound ==
    [][\A i \in DOMAIN suspended :
          edit_message_returned(i) =>
              /\ suspended[i].user_id \in DOMAIN blackjack_games
              /\ ~blackjack_games[suspended[i].user_id].active]_vars

\* The del of a settling handler raised KeyError: another handler of the
\* same user had removed the record.
C34_Witness ==
    /\ reply.kind = "KeyError"
    /\ reply.user \notin DOMAIN blackjack_games
    /\ \E v \in DOMAIN bjViews : bjViews[v].user_id = reply.user /\ bjViews[v].disabled

\* ------------------------------------------------- rounds of unequal wagers
PairWagers == {MinMise + 1, 2 * MinMise}

NumPairShuffles == 2

\* The rounds of SpecRounds with two wagers to choose from.
NextWagers ==
    \/ \E u \in Users, mise \in PairWagers, k \in 1..NumPairShuffles :
          blackjack(u, mise, k) /\ Bounded(MaxRoundWaifame)'
    \/ \E v \in DOMAIN bjViews, presser \in Users : hit(v, presser)
    \/ \E v \in DOMAIN bjViews, presser \in Users :
          stand(v, presser) /\ Bounded(MaxRoundWaifame)'
    \/ \E v \in DOMAIN bjViews : bj_timeout(v)

SpecWagers == InitRounds /\ [][NextWagers]_vars

\* C35: a press of Hit or Stand that changes the balance of the player
\* changes it by the wager of the record of the round it settles.
C35_SettlesRecordedWager ==
    [][\A v \in DOMAIN bjViews, presser \in Users :
          LET uid == bjViews[v].user_id
          IN  ((hit(v, presser) \/ stand(v, presser)) /\
               user_data'[uid].waifame # user_data[uid].waifame) =>
                  \/ user_data'[uid].waifame =
                        user_data[uid].waifame + blackjack_games[uid].mise
                  \/ user_data'[uid].waifame =
                        user_data[uid].waifame - blackjack_games[uid].mise]_vars

\* A user who held 60 wagered 11 and then 20 and pressed a button of the
\* first message: the round of 20 is settled and the balance moved by 11.
C35_Witness ==
    /\ reply.kind \in {"blackjack_bust", "blackjack_lost", "blackjack_won"}
    /\ reply.view = 1
    /\ Len(bjViews) = 2
    /\ bjViews[1].user_id = reply.user
    /\ bjViews[2].user_id = reply.user
    /\ bjViews[1].mise = 11
    /\ bjViews[2].mise = 20
    /\ ~bjViews[2].disabled
    /\ reply.user \notin DOMAIN blackjack_games
    /\ user_data[reply.user].waifame \in {49, 71}

\* C36: a ?blackjack that deals a round which is not a natural 21 leaves
\* every balance as it was, and so does the timeout of a view; a balance
\* changes only in the step of a natural 21 or in the step of a Hit or a
\* Stand of its owner that settles the active round of that owner.
C36_BalanceMovesOnlyWhenSettled ==
    [][/\ \A u \in Users, mise \in PairWagers, k \in 1..NumPairShuffles :
             (blackjack(u, mise, k) /\ reply'.kind # "blackjack_natural") =>
                 \A x \in Users : user_data'[x].waifame = user_data[x].waifame
       /\ \A v \in DOMAIN bjViews :
             bj_timeout(v) => \A x \in Users : user_data'[x].waifame = user_data[x].waifame
       /\ \A x \in Users :
             user_data'[x].waifame # user_data[x].waifame =>
                 \/ reply'.kind = "blackjack_natural" /\ reply'.user = x
                 \/ /\ x \in DOMAIN blackjack_games
                    /\ blackjack_games[x].active
                    /\ x \notin DOMAIN blackjack_games'
                    /\ \E v \in DOMAIN bjViews :
                          /\ bjViews[v].user_id = x
                          /\ hit(v, x) \/ stand(v, x)]_vars

\* A user who held 60 let the message of a first round time out untouched
\* and settled a second round on its own message: the balance moved once,
\* by the wager of the second round.
C36_Witness ==
    /\ reply.kind \in {"blackjack_bust", "blackjack_lost", "blackjack_won"}
    /\ reply.view = 2
    /\ Len(bjViews) = 2
    /\ bjViews[1].user_id = reply.user
    /\ bjViews[2].user_id = reply.user
    /\ bjViews[1].finished
    /\ ~bjViews[1].disabled
    /\ bjViews[2].disabled
    /\ user_data[reply.user].waifame \in
          {60 - bjViews[2].mise, 60 + bjViews[2].mise}

\* The 52 cards: 13 values in each of 4 suits.
Cards == (1..13) \X (1..4)

\* The deck and the two hands of a round hold every card once.
Conserved(game) ==
    LET all == game.deck \o game.player \o game.dealer
    IN  /\ Len(all) = 52
        /\ {all[i] : i \in 1..Len(all)} = Cards

IsPrefix(s, t) == Len(s) <= Len(t) /\ SubSeq(t, 1, Len(s)) = s

\* C37: the deck, the hand of the player and the hand of the dealer of
\* every round record hold each of the 52 cards once; a step that changes
\* a record without dealing a new round only takes cards from the end of
\* the deck and adds as many to the hands (one to the player for a Hit),
\* and it leaves cards in the deck.
C37_CardsConserved ==
    [][\A u \in DOMAIN blackjack_games' :
          LET after == blackjack_games'[u]
          IN  /\ Conserved(after)
              /\ Len(after.deck) > 0
              /\ (u \in DOMAIN blackjack_games /\
                  ~(reply'.kind = "blackjack_dealt" /\ reply'.user = u)) =>
                    LET before == blackjack_games[u]
                    IN  /\ IsPrefix(after.deck, before.deck)
                        /\ IsPrefix(before.player, after.player)
                        /\ IsPrefix(before.dealer, after.dealer)
                        /\ Len(before.deck) > 0
                        /\ (reply'.kind \in {"blackjack_hit", "blackjack_bust"} /\
                            reply'.user = u) =>
                              /\ Len(after.deck) = Len(before.deck) - 1
                              /\ after.player =
                                    Append(before.player, before.deck[Len(before.deck)])
                              /\ after.dealer = before.dealer]_vars

\* A round settled by a Stand in which the dealer drew is still on record,
\* its handler at the edit of the message, and the player of a round on
\* record drew a third card: each deck holds the cards the hands do not.
C37_Witness ==
    /\ suspended # <<>>
    /\ \E u \in DOMAIN blackjack_games :
          /\ ~blackjack_games[u].active
          /\ Len(blackjack_games[u].dealer) >= 3
          /\ Len(blackjack_games[u].deck) =
                52 - Len(blackjack_games[u].player) - Len(blackjack_games[u].dealer)
    /\ \E w \in DOMAIN blackjack_games :
          /\ Len(blackjack_games[w].player) >= 3
          /\ Len(blackjack_games[w].deck) =
                52 - Len(blackjack_games[w].player) - Len(blackjack_games[w].dealer)

\* ------------------------------------------- image sessions sharing a guild
\* Two image sessions in one guild: ?next, the Suivant button and the
\* Précédent button of each, in every order.
NextShared ==
    \/ \E u \in Users, g \in Guilds, f \in Fetches : next(u, g, SafeTags, f) /\ LoopBounded'
    \/ \E v \in DOMAIN imageViews, presser \in Users, f \in Fetches :
          next_callback(v, presser, f) /\ LoopBounded'
    \/ \E v \in DOMAIN imageViews, presser \in Users : rewind_callback(v, presser)

SpecShared == Init /\ [][NextShared]_vars

\* C38: the entry a successful rewind of a session takes off the history
\* of the guild is the current post of that session, the last it appended
\* itself, never the entry of another session; the session then shows the
\* entry under its own.
C38_RewindOwnItem ==
    [][\A v \in DOMAIN imageViews, presser \in Users :
          (rewind_callback(v, presser) /\ history' # history) =>
              LET g == imageViews[v].guild_id
              IN  history[g][Len(history[g])] = imageViews[v].post]_vars

\* User 1 and then user 2 asked for an image, and user 1 pressed Précédent:
\* the entry of user 2's session is gone from the history, user 2's session
\* still shows it, and user 1's session shows what it showed before.
C38_Witness ==
    /\ reply.kind = "rewind"
    /\ reply.user = 1
    /\ reply.val = 1
    /\ Len(imageViews) = 2
    /\ imageViews[1].user_id = 1
    /\ imageViews[2].user_id = 2
    /\ imageViews[1].post.id = 1
    /\ imageViews[2].post.id = 2
    /\ imageViews[2].embed = 2
    /\ history[1] = <<imageViews[1].post>>
    /\ user_data[1].view_count = 1
    /\ user_data[2].view_count = 1

\* ------------------------------------------------------------ FavoritesView
\* update_view: the two arrows of the view object.
update_view(view, user_favs) ==
    [view EXCEPT !.prev_disabled = (view.index = 0),
                 !.next_disabled = (view.index >= Len(user_favs) - 1)]

\* FavoritesView.__init__(user_id), index 0, on the message that carries it.
\* The shown_ fields are what the message shows: the buttons a user can
\* press are the buttons of the last edit.
FavoritesView(user_id, user_favs) ==
    update_view([user_id |-> user_id, index |-> 0,
                 prev_disabled |-> FALSE, next_disabled |-> FALSE,
                 shown_post |-> user_favs[1].id,
                 shown_prev_disabled |-> TRUE,
                 shown_next_disabled |-> (0 >= Len(user_favs) - 1),
                 closed |-> FALSE], user_favs)

\* get_user_favs: get_user_data(self.user_id).get("favorites", [])
get_user_favs(ud, user_id) == Get(get_user_data(ud, user_id)[user_id], "favorites", <<>>)

InRange(index, user_favs) == 0 <= index /\ index < Len(user_favs)

\* show_favorite: the message is edited when the index is in the list, and
\* nothing is sent when it is not.
show_favorite(view, user_favs) ==
    IF InRange(view.index, user_favs)
    THEN [view EXCEPT !.shown_post = user_favs[view.index + 1].id,
                      !.shown_prev_disabled = view.prev_disabled,
                      !.shown_next_disabled = view.next_disabled]
    ELSE view

\* ?favorites_list
favorites_list(u) ==
    LET user_favs == get_user_favs(user_data, u)
    IN  /\ user_data' = get_user_data(user_data, u)
        /\ IF Len(user_favs) = 0
           THEN /\ reply' = Reply("favorites_none", u, 0)
                /\ UNCHANGED favViews
           ELSE /\ favViews' = Append(favViews, FavoritesView(u, user_favs))
                /\ reply' = Reply("favorites", u, Len(favViews) + 1)
        /\ NoSave
        /\ UNCHANGED <<history, video_history, blackjack_games, imageViews, videoViews,
                       bjViews, modals, now, quizViews, suspended>>

\* prev_callback (step -1) and next_callback (step 1) of FavoritesView.
favorites_step(v, step) ==
    LET view == favViews[v]
        user_favs == get_user_favs(user_data, view.user_id)
        moved == update_view([view EXCEPT !.index = @ + step], user_favs)
    IN  /\ user_data' = get_user_data(user_data, view.user_id)
        /\ favViews' = [favViews EXCEPT ![v] = show_favorite(moved, user_favs)]
        /\ reply' = Reply(IF InRange(moved.index, user_favs)
                          THEN "favorite" ELSE "favorite_no_response", view.user_id, v)
        /\ NoSave
        /\ UNCHANGED <<history, video_history, blackjack_games, imageViews, videoViews,
                       bjViews, modals, now, quizViews, suspended>>

favorites_prev_callback(v) ==
    /\ ~favViews[v].closed
    /\ ~favViews[v].shown_prev_disabled
    /\ favorites_step(v, -1)

favorites_next_callback(v) ==
    /\ ~favViews[v].closed
    /\ ~favViews[v].shown_next_disabled
    /\ favorites_step(v, 1)

\* user_favs.pop(self.index)
PoppedAt(user_favs, index) ==
    SubSeq(user_favs, 1, index) \o SubSeq(user_favs, index + 2, Len(user_favs))

\* delete_callback; an edit with view=None takes the buttons off the message.
favorites_delete_callback(v) ==
    LET view == favViews[v]
        uid == view.user_id
        ud == get_user_data(user_data, uid)
        user_favs == get_user_favs(user_data, uid)
        left == PoppedAt(user_favs, view.index)
        clamped == IF view.index >= Len(left) THEN Len(left) - 1 ELSE view.index
    IN  /\ ~view.closed
        /\ IF InRange(view.index, user_favs)
           THEN /\ user_data' = [ud EXCEPT ![uid] = Put(@, "favorites", left)]
                /\ save_user_data(user_data')
                /\ IF Len(left) = 0
                   THEN /\ favViews' = [favViews EXCEPT ![v].closed = TRUE]
                        /\ reply' = Reply("favorites_emptied", uid, v)
                   ELSE /\ favViews' = [favViews EXCEPT ![v] =
                               show_favorite(update_view([view EXCEPT !.index = clamped],
                                                         left), left)]
                        /\ reply' = Reply("favorite_deleted", uid, v)
           ELSE /\ user_data' = ud
                /\ reply' = Reply("favorite_no_response", uid, v)
                /\ NoSave
                /\ UNCHANGED favViews
        /\ UNCHANGED <<history, video_history, blackjack_games, imageViews, videoViews,
                       bjViews, modals, now, quizViews, suspended>>

MaxFavViews == 2

MaxFavIndex == 2

MaxFavsAdded == 3

FavListBounded ==
    /\ LoopBounded
    /\ Len(favViews) <= MaxFavViews
    /\ \A v \in DOMAIN favViews : -1 <= favViews[v].index /\ favViews[v].index <= MaxFavIndex
    /\ \A u \in DOMAIN user_data : Get(user_data[u], "daily_favs", 0) <= MaxFavsAdded

\* Favourites added and removed on image sessions and browsed and deleted
\* on favourites sessions, in every order.
NextFavList ==
    \/ \E g \in Guilds, f \in Fetches : next(1, g, SafeTags, f) /\ FavListBounded'
    \/ \E v \in DOMAIN imageViews : fav_callback(v, 1) /\ FavListBounded'
    \/ favorites_list(1) /\ FavListBounded'
    \/ \E v \in DOMAIN favViews : favorites_prev_callback(v) /\ FavListBounded'
    \/ \E v \in DOMAIN favViews : favorites_next_callback(v) /\ FavListBounded'
    \/ \E v \in DOMAIN favViews : favorites_delete_callback(v)

SpecFavList == Init /\ [][NextFavList]_vars

\* C39: after every press of an arrow or of the delete button of a
\* favourites session, the index of the session is a position of the list
\* of its user unless the list is empty; a delete at a position of the
\* list takes out the entry there, keeps the others in their order and
\* leaves the index at the lesser of itself and the last position.
C39_IndexInRange ==
    [][\A v \in DOMAIN favViews :
          LET uid == favViews[v].user_id
              before == user_data[uid].favorites
              after == user_data'[uid].favorites
              index == favViews[v].index
          IN  /\ (favorites_prev_callback(v) \/ favorites_next_callback(v) \/
                  favorites_delete_callback(v)) =>
                     (after # <<>> =>
                         /\ 0 <= favViews'[v].index
                         /\ favViews'[v].index < Len(after))
              /\ (favorites_delete_callback(v) /\ 0 <= index /\ index < Len(before)) =>
                     /\ after = [i \in 1..(Len(before) - 1) |->
                                    IF i <= index THEN before[i] ELSE before[i + 1]]
                     /\ (after # <<>> =>
                            favViews'[v].index =
                               (IF index < Len(after) THEN index ELSE Len(after) - 1))]_vars

\* The user opened the list of two favourites, took the first off through
\* the heart button of an image session, and pressed the right arrow of the
\* favourites session: the index is 1, the list has one entry and the press
\* got no response.
C39_Witness ==
    /\ reply.kind = "favorite_no_response"
    /\ favViews[reply.val].index = 1
    /\ Len(user_data[reply.user].favorites) = 1
    /\ ~favViews[reply.val].shown_next_disabled
    /\ favViews[reply.val].shown_post # user_data[reply.user].favorites[1].id
====
